---- MODULE Spec2Model ----
(***************************************************************************)
(* OpenHardwareMonitorDashboard backend: the log ingestion pipeline        *)
(* (app/services/data_processor.py) and the analytics engine               *)
(* (app/services/insights_engine.py).                                      *)
(*                                                                         *)
(* Representation.                                                         *)
(*  - A calendar date string "2024-MM-DD" is the pair <<MM, DD>>; strptime *)
(*    checks the month and the day of the month and yields the midnight of *)
(*    that date.  A datetime is a number of seconds since 2024-01-01       *)
(*    00:00:00, shifted by one day so that Jan 1 is day 1.                 *)
(*  - A sensor value is a fixed-point number in tenths (65.0 is 650), so   *)
(*    that means, variances, percentiles and least-squares slopes are      *)
(*    exact rationals, compared by cross-multiplication.                   *)
(*  - A CSV cell is NULL (empty) or a tagged string: <<"n", v>> a numeric  *)
(*    string, <<"t", s>> a date-time string, <<"s", label>> other text.    *)
(***************************************************************************)
EXTENDS Integers, Sequences, FiniteSets, TLC

VARIABLES files, request, ret, engine, calls

vars == <<files, request, ret, engine, calls>>

NULL == <<"null">>

(***************************************************************************)
(* Bounds of the model.                                                    *)
(***************************************************************************)
\* at most this many files in the directory of the directory scenarios
MaxFiles == 3
\* at most this many rows in a table of the extraction scenarios
MaxRows == 2
\* the longest generated sensor series has min_data_points + ExtraPoints rows
ExtraPoints == 2
\* the equal outlying readings of a value array
MaxFlagged == 3
\* the longest series handed to _generate_cross_metric_insights on its own
MaxSeries == 2
\* the largest chunk_size of the settings scenarios; the row cap goes one
\* beyond it and a file has up to two chunks and one row more
MaxChunk == 3

(***************************************************************************)
(* Program constants.                                                      *)
(***************************************************************************)
SecondsPerDay == 86400
max_csv_size_mb == 100
max_rows_per_file == 100000
min_data_points == 10

(***************************************************************************)
(* Dates and datetimes.                                                    *)
(***************************************************************************)
Months == {1, 2, 13}
Days == {1, 31, 32}
\* date tokens as they occur in file names and in requests; some are no date
DateTokens == Months \X Days

DaysInMonth(m) == IF m = 1 THEN 31 ELSE IF m = 2 THEN 29 ELSE 0

\* datetime.strptime(s, "%Y-%m-%d") raises ValueError for a token that is no date
IsDate(tok) == /\ tok \in DateTokens
               /\ tok[1] \in 1..12
               /\ tok[2] \in 1..DaysInMonth(tok[1])

\* datetime.strptime(s, "%Y-%m-%d"): the midnight that starts the date
strptime(tok) == (IF tok[1] = 1 THEN tok[2] ELSE 31 + tok[2]) * SecondsPerDay

ValidDates == {tok \in DateTokens : IsDate(tok)}

\* the order of Python's str comparison on zero-padded "2024-MM-DD" strings
StrLess(a, b) == \/ a[1] < b[1]
                 \/ a[1] = b[1] /\ a[2] < b[2]

RECURSIVE Insert(_, _)
Insert(x, s) == IF s = <<>> THEN <<x>>
                ELSE IF StrLess(x, Head(s)) THEN <<x>> \o s
                ELSE <<Head(s)>> \o Insert(x, Tail(s))

\* sorted(list) on date strings
RECURSIVE sorted(_)
sorted(s) == IF s = <<>> THEN <<>> ELSE Insert(Head(s), sorted(Tail(s)))

Range(s) == {s[i] : i \in DOMAIN s}

(***************************************************************************)
(* The data directory.  A file name is its stem (with or without the       *)
(* "OpenHardwareMonitorLog-" prefix, then a token) and its extension.      *)
(***************************************************************************)
Junk == <<"other_file">>
Stems == DateTokens \cup {Junk}
FileNames == [prefix : BOOLEAN, tok : Stems, ext : {"csv", "txt"}]

LogName(date) == [prefix |-> TRUE, tok |-> date, ext |-> "csv"]
PlainName(date) == [prefix |-> FALSE, tok |-> date, ext |-> "csv"]

\* glob.glob(data_directory / "*.csv"): the listing, in directory order
RECURSIVE SetToSeq(_)
SetToSeq(S) == IF S = {} THEN <<>>
               ELSE LET x == CHOOSE y \in S : TRUE
                    IN <<x>> \o SetToSeq(S \ {x})

glob(dir) == SetToSeq({f \in DOMAIN dir : f.ext = "csv"})

\* Path(file).stem with the "OpenHardwareMonitorLog-" prefix replaced by ""
date_str(f) == f.tok

RECURSIVE collect_dates(_)
collect_dates(listing) ==
    IF listing = <<>> THEN <<>>
    ELSE LET date == date_str(Head(listing))
         IN (IF IsDate(date) THEN <<date>> ELSE <<>>) \o collect_dates(Tail(listing))

\* DataProcessor.get_available_dates
get_available_dates(dir) == sorted(collect_dates(glob(dir)))

(***************************************************************************)
(* Tables.  A DataFrame is its column labels and its rows; a column label  *)
(* is a cell as well, because process_csv_data promotes a data row to the  *)
(* header.                                                                 *)
(***************************************************************************)
Str(label) == <<"s", label>>
Num(v) == <<"n", v>>
Time(t) == <<"t", t>>

IsNum(c) == Len(c) = 2 /\ c[1] = "n"
IsTime(c) == Len(c) = 2 /\ c[1] = "t"
IsStr(c) == Len(c) = 2 /\ c[1] = "s"

\* the labels that contain the text 'Time'
TimeLabels == {"Time"}
\* the labels that contain the text 'CPU Core #'
CoreLabels == {"CPU Core #1"}

EmptyFrame == [columns |-> <<>>, rows |-> <<>>]

\* DataFrame.empty
empty(df) == df.rows = <<>> \/ df.columns = <<>>

Count(s, x) == Cardinality({i \in DOMAIN s : s[i] = x})

\* the position of the first column labelled x
ColIdx(columns, x) == CHOOSE i \in DOMAIN columns :
                          /\ columns[i] = x
                          /\ \A j \in 1..(i - 1) : columns[j] # x

Min(a, b) == IF a <= b THEN a ELSE b

\* df[label] = values: an existing column is overwritten, a new one is appended
SetColumn(df, label, values) ==
    IF label \in Range(df.columns)
    THEN [df EXCEPT !.rows = [r \in DOMAIN df.rows |->
              [c \in DOMAIN df.columns |->
                  IF df.columns[c] = label THEN values[r] ELSE df.rows[r][c]]]]
    ELSE [columns |-> Append(df.columns, label),
          rows |-> [r \in DOMAIN df.rows |-> Append(df.rows[r], values[r])]]

\* pd.to_datetime(cell, errors='coerce'): NaT for what is no date-time string
to_datetime(c) == IF IsTime(c) THEN c ELSE NULL

\* pd.to_numeric(cell, errors='coerce'): NaN for what is no number
to_numeric(c) == IF IsNum(c) THEN c ELSE NULL

\* the path load_csv_data constructs: data_directory / f"OpenHardwareMonitorLog-{date}.csv"
file_path(date) == LogName(date)

\* no file: load_csv_data prints "No data for date" and returns an empty frame
NoFile == [prefix |-> FALSE, tok |-> <<"none">>, ext |-> "none"]

\* the file load_csv_data reads for the date
resolved(dir, date) == IF file_path(date) \in DOMAIN dir THEN file_path(date) ELSE NoFile

\* a load without the size check of lines 50-54
load_csv_data_any_size(dir, date) ==
    LET path == file_path(date)
    IN IF resolved(dir, date) = NoFile THEN EmptyFrame
       ELSE [columns |-> dir[path].header,
             rows |-> SubSeq(dir[path].rows, 1,
                             Min(Len(dir[path].rows), max_rows_per_file))]

\* DataProcessor.load_csv_data, the direct read
load_csv_data(dir, date) ==
    LET path == file_path(date)
    IN IF resolved(dir, date) = NoFile THEN EmptyFrame
       ELSE IF dir[path].size_mb > max_csv_size_mb THEN EmptyFrame
       ELSE [columns |-> dir[path].header,
             rows |-> SubSeq(dir[path].rows, 1,
                             Min(Len(dir[path].rows), max_rows_per_file))]

\* pd.read_csv(..., nrows=max_rows): the direct read of lines 59-69
read_direct(rows, max_rows) == SubSeq(rows, 1, Min(Len(rows), max_rows))

\* the number of chunks the loop of lines 76-84 appends: it takes whole chunks
\* and stops after the first one with len(chunks) * chunk_size >= max_rows
RECURSIVE chunks_appended(_, _, _, _)
chunks_appended(n_rows, chunk, max_rows, taken) ==
    IF taken * chunk >= n_rows THEN taken
    ELSE IF (taken + 1) * chunk >= max_rows THEN taken + 1
    ELSE chunks_appended(n_rows, chunk, max_rows, taken + 1)

\* pd.concat(chunks) of the chunked fallback of lines 70-91
read_chunked(rows, chunk, max_rows) ==
    SubSeq(rows, 1, Min(Len(rows), chunks_appended(Len(rows), chunk, max_rows, 0) * chunk))

\* DataProcessor.load_csv_data under the given settings.chunk_size and
\* settings.max_rows_per_file; memory_error tells whether the direct read
\* raised MemoryError
load_csv_data_under(dir, date, chunk, max_rows, memory_error) ==
    LET path == file_path(date)
    IN IF resolved(dir, date) = NoFile THEN EmptyFrame
       ELSE IF dir[path].size_mb > max_csv_size_mb THEN EmptyFrame
       ELSE IF ~memory_error
       THEN [columns |-> dir[path].header,
             rows |-> read_direct(dir[path].rows, max_rows)]
       ELSE IF dir[path].rows = <<>> THEN EmptyFrame
       ELSE [columns |-> dir[path].header,
             rows |-> read_chunked(dir[path].rows, chunk, max_rows)]

\* the rows of s without the one at position i
DropAt(s, i) == SubSeq(s, 1, i - 1) \o SubSeq(s, i + 1, Len(s))

\* str(row.iloc[0]) contains 'Time'
ContainsTime(c) == IsStr(c) /\ c[2] \in TimeLabels

\* DataProcessor.process_csv_data
process_csv_data(df, date) ==
    IF empty(df) THEN df
    ELSE
    LET headerRows == {i \in DOMAIN df.rows : ContainsTime(df.rows[i][1])}
        promoted == IF headerRows = {} THEN df
                    ELSE LET time_row_idx == CHOOSE i \in headerRows :
                                                 \A j \in headerRows : i <= j
                         IN [columns |-> df.rows[time_row_idx],
                             rows |-> DropAt(df.rows, time_row_idx)]
        cols == promoted.columns
        source == IF Str("Time") \in Range(cols) THEN Str("Time")
                  ELSE IF Str("time") \in Range(cols) THEN Str("time")
                  ELSE IF Str("timestamp") \in Range(cols) THEN Str("timestamp")
                  ELSE NULL
        stamps == IF source = NULL
                  THEN [r \in DOMAIN promoted.rows |->
                           Time(strptime(date) + 60 * (r - 1))]
                  ELSE [r \in DOMAIN promoted.rows |->
                           to_datetime(promoted.rows[r][ColIdx(cols, source)])]
        stamped == SetColumn(promoted, Str("timestamp"), stamps)
        tsIdx == ColIdx(stamped.columns, Str("timestamp"))
        HasStamp(row) == row[tsIdx] # NULL
        valid == SelectSeq(stamped.rows, HasStamp)
        Convert(c, cell) ==
            IF stamped.columns[c] \in {Str("timestamp"), Str("Time")} THEN cell
            ELSE IF Count(stamped.columns, stamped.columns[c]) > 1 THEN cell
            ELSE to_numeric(cell)
    IN IF source # NULL /\ Count(cols, source) > 1 THEN EmptyFrame
       ELSE [columns |-> stamped.columns,
             rows |-> [r \in DOMAIN valid |->
                          [c \in DOMAIN stamped.columns |-> Convert(c, valid[r][c])]]]

(***************************************************************************)
(* Metric extraction.                                                      *)
(***************************************************************************)
CPU_TEMP == "cpu_temperature"
GPU_TEMP == "gpu_temperature"
CPU_USAGE == "cpu_usage"
GPU_USAGE == "gpu_usage"
FAN_SPEED == "fan_speed"
MEMORY_USAGE == "memory_usage"
DISK_USAGE == "disk_usage"

\* list(MetricType), in the order of the enumeration
MetricType == <<CPU_TEMP, GPU_TEMP, CPU_USAGE, GPU_USAGE, FAN_SPEED,
                MEMORY_USAGE, DISK_USAGE>>

\* the columns of df whose label contains 'CPU Core #', in column order
cpu_core_columns(df) ==
    LET IsCore(c) == c[2] \in CoreLabels
    IN SelectSeq(df.columns, IsCore)

\* a mapping that tries the per-core columns before 'CPU Total'
metric_mapping_cores_first(df, metric_type) ==
    CASE metric_type = CPU_TEMP -> cpu_core_columns(df) \o <<Str("CPU Total")>>
      [] metric_type = GPU_TEMP -> <<Str("GPU Core")>>
      [] metric_type = CPU_USAGE -> <<Str("CPU Total")>>
      [] metric_type = GPU_USAGE -> <<Str("GPU Core")>>
      [] metric_type = FAN_SPEED -> <<Str("GPU Fan")>>
      [] metric_type = MEMORY_USAGE -> <<Str("Memory")>>
      [] metric_type = DISK_USAGE -> <<Str("Used Space")>>
      [] OTHER -> <<>>

metric_mapping(df, metric_type) ==
    CASE metric_type = CPU_TEMP -> <<Str("CPU Total")>> \o cpu_core_columns(df)
      [] metric_type = GPU_TEMP -> <<Str("GPU Core")>>
      [] metric_type = CPU_USAGE -> <<Str("CPU Total")>>
      [] metric_type = GPU_USAGE -> <<Str("GPU Core")>>
      [] metric_type = FAN_SPEED -> <<Str("GPU Fan")>>
      [] metric_type = MEMORY_USAGE -> <<Str("Memory")>>
      [] metric_type = DISK_USAGE -> <<Str("Used Space")>>
      [] OTHER -> <<>>

\* DataProcessor._get_unit_for_metric
get_unit_for_metric(metric_type) ==
    IF metric_type \in {CPU_TEMP, GPU_TEMP} THEN "C"
    ELSE IF metric_type = FAN_SPEED THEN "RPM"
    ELSE "%"

\* clean_data: the (timestamp, value) pairs of column col, the first of that
\* label, without the rows where either is missing or the value is no number
clean_data(df, col) ==
    LET tsIdx == ColIdx(df.columns, Str("timestamp"))
        colIdx == ColIdx(df.columns, col)
        pairs == [r \in DOMAIN df.rows |-> <<df.rows[r][tsIdx], df.rows[r][colIdx]>>]
        Present(pr) == pr[1] # NULL /\ pr[2] # NULL
        Numeric(pr) == to_numeric(pr[2]) # NULL
    IN SelectSeq(SelectSeq(pairs, Present), Numeric)

\* the values list built from clean_data: float(v) of every value
series_values(clean) == [i \in DOMAIN clean |-> to_numeric(clean[i][2])[2]]

\* the timestamps taken from every stamped row of df, and not cut
series_timestamps_from_df(df, clean) ==
    LET tsIdx == ColIdx(df.columns, Str("timestamp"))
        Stamped(row) == row[tsIdx] # NULL
        stampedRows == SelectSeq(df.rows, Stamped)
    IN [r \in DOMAIN stampedRows |-> stampedRows[r][tsIdx][2]]

\* the timestamps list of clean_data, cut to the length of the values

series_timestamps(df, clean) ==
    LET timestamps == [i \in DOMAIN clean |-> clean[i][1][2]]
        values == series_values(clean)
    IN IF Len(timestamps) >= Len(values)
       THEN SubSeq(timestamps, 1, Len(values))
       ELSE timestamps

\* the series extract_metrics appends for (metric_type, col), <<>> when the
\* column yields none
column_series(df, metric_type, col) ==
    IF col \notin Range(df.columns) THEN <<>>
    ELSE IF Str("timestamp") \notin Range(df.columns) THEN <<>>
    ELSE LET clean == clean_data(df, col)
             timestamps == series_timestamps(df, clean)
             values == series_values(clean)
         IN IF Len(clean) = 0 THEN <<>>
            ELSE <<[timestamps |-> timestamps,
                    values |-> SubSeq(values, 1, Min(Len(values), Len(timestamps))),
                    metric_type |-> metric_type,
                    component |-> col[2],
                    unit |-> get_unit_for_metric(metric_type)]>>

\* an inner loop without the break: the series of every column that yields one
RECURSIVE every_series(_, _, _)
every_series(df, metric_type, cols) ==
    IF cols = <<>> THEN <<>>
    ELSE column_series(df, metric_type, Head(cols))
         \o every_series(df, metric_type, Tail(cols))

\* the inner loop over possible_columns: the first column that yields a series
RECURSIVE first_series(_, _, _)
first_series(df, metric_type, cols) ==
    IF cols = <<>> THEN <<>>
    ELSE LET found == column_series(df, metric_type, Head(cols))
         IN IF found # <<>> THEN found
            ELSE first_series(df, metric_type, Tail(cols))

RECURSIVE extract_each(_, _)
extract_each(df, types) ==
    IF types = <<>> THEN <<>>
    ELSE first_series(df, Head(types), metric_mapping(df, Head(types)))
         \o extract_each(df, Tail(types))

\* DataProcessor.extract_metrics
extract_metrics(df, metric_types) ==
    IF empty(df) THEN <<>>
    ELSE IF \E c \in Range(df.columns) : ~IsStr(c) THEN <<>>
    ELSE extract_each(df, IF metric_types = <<>> THEN MetricType ELSE metric_types)

(***************************************************************************)
(* get_metrics_for_period.                                                 *)
(***************************************************************************)
\* pd.concat of two frames: the rows of both under the union of the columns
concat2(a, b) ==
    IF a.columns = b.columns THEN [columns |-> a.columns, rows |-> a.rows \o b.rows]
    ELSE LET New(c) == c \notin Range(a.columns)
             cols == a.columns \o SelectSeq(b.columns, New)
             Cell(f, row, c) == IF cols[c] \in Range(f.columns)
                                THEN row[ColIdx(f.columns, cols[c])]
                                ELSE NULL
         IN [columns |-> cols,
             rows |-> [r \in DOMAIN a.rows |-> [c \in DOMAIN cols |-> Cell(a, a.rows[r], c)]]
                      \o [r \in DOMAIN b.rows |-> [c \in DOMAIN cols |-> Cell(b, b.rows[r], c)]]]

\* pd.concat(all_data, ignore_index=True)
RECURSIVE concat(_)
concat(frames) == IF Len(frames) = 1 THEN Head(frames)
                  ELSE concat(<<concat2(frames[1], frames[2])>> \o Tail(Tail(frames)))

\* end_dt + timedelta(days=1) - timedelta(seconds=1)
end_dt_inclusive(end_dt) == end_dt + SecondsPerDay - 1

\* the available dates between the start date and the end of the end date
dates_in_range(available_dates, start_date, end_date) ==
    LET InRange(date) == /\ strptime(start_date) <= strptime(date)
                         /\ strptime(date) <= end_dt_inclusive(strptime(end_date))
    IN SelectSeq(available_dates, InRange)

\* the loop over dates_in_range: the processed frame of every date that has one
RECURSIVE all_data(_, _)
all_data(dir, dates) ==
    IF dates = <<>> THEN <<>>
    ELSE LET df == load_csv_data(dir, Head(dates))
             processed == IF empty(df) THEN df ELSE process_csv_data(df, Head(dates))
         IN (IF empty(processed) THEN <<>> ELSE <<processed>>)
            \o all_data(dir, Tail(dates))

\* DataProcessor.get_metrics_for_period
get_metrics_for_period(dir, start_date, end_date, metric_types) ==
    LET available_dates == get_available_dates(dir)
    IN IF available_dates = <<>> THEN <<>>
       ELSE IF ~IsDate(start_date) \/ ~IsDate(end_date) THEN <<>>
       ELSE LET in_range == dates_in_range(available_dates, start_date, end_date)
                frames == all_data(dir, in_range)
            IN IF in_range = <<>> \/ frames = <<>> THEN <<>>
               ELSE extract_metrics(concat(frames), metric_types)

(***************************************************************************)
(* Statistics on value arrays (numpy, scipy.stats), as exact rationals.    *)
(***************************************************************************)
RECURSIVE Sum(_)
Sum(s) == IF s = <<>> THEN 0 ELSE Head(s) + Sum(Tail(s))

\* np.mean(values) = Sum(values) / Len(values);
\* np.std(values) ^ 2 = VarNum(values) / Len(values) ^ 2
SumSq(s) == Sum([i \in DOMAIN s |-> s[i] * s[i]])
VarNum(s) == Len(s) * SumSq(s) - Sum(s) * Sum(s)

RECURSIVE InsertNum(_, _)
InsertNum(x, s) == IF s = <<>> THEN <<x>>
                   ELSE IF x < Head(s) THEN <<x>> \o s
                   ELSE <<Head(s)>> \o InsertNum(x, Tail(s))

RECURSIVE SortNum(_)
SortNum(s) == IF s = <<>> THEN <<>> ELSE InsertNum(Head(s), SortNum(Tail(s)))

\* np.min, np.max
MinOf(s) == SortNum(s)[1]
MaxOf(s) == SortNum(s)[Len(s)]

\* den times the value at the lower of the two closest ranks
PercentileLower(s, num, den) ==
    den * SortNum(s)[(num * (Len(s) - 1)) \div den + 1]

\* den * np.percentile(values, 100 * num / den), by linear interpolation
\* between the two closest ranks
Percentile(s, num, den) ==
    LET a == SortNum(s)
        k == num * (Len(s) - 1)
        lo == k \div den
        r == k % den
    IN IF r = 0 THEN den * a[lo + 1]
       ELSE (den - r) * a[lo + 1] + r * a[lo + 2]

\* the numerator and the denominator of np.polyfit(arange(n), values, 1)[0]
SlopeNum(s) ==
    LET n == Len(s)
        x == [i \in 1..n |-> i - 1]
    IN n * Sum([i \in 1..n |-> x[i] * s[i]]) - Sum(x) * Sum(s)

SlopeDen(s) ==
    LET n == Len(s)
        x == [i \in 1..n |-> i - 1]
    IN n * SumSq(x) - Sum(x) * Sum(x)

(***************************************************************************)
(* InsightsEngine: configuration.  Values are in tenths.                   *)
(***************************************************************************)
cpu_temp_warning == 800
cpu_temp_critical == 900
gpu_temp_warning == 850
gpu_temp_critical == 950

\* AnomalyDetectionConfig: z_score_threshold 2.5 and iqr_multiplier 1.5 in
\* halves, trend_sensitivity 0.1 in tenths
z_score_threshold == 5
iqr_multiplier == 3
trend_sensitivity == 1

TempMetrics == {CPU_TEMP, GPU_TEMP}

\* the empty dict
EmptyDict == [empty |-> TRUE]

\* InsightsEngine.thresholds; FAN_SPEED has no entry
thresholds(metric_type) ==
    CASE metric_type = CPU_TEMP ->
             [warning |-> cpu_temp_warning, critical |-> cpu_temp_critical,
              optimal_max |-> 700]
      [] metric_type = GPU_TEMP ->
             [warning |-> gpu_temp_warning, critical |-> gpu_temp_critical,
              optimal_max |-> 750]
      [] metric_type = CPU_USAGE ->
             [warning |-> 900, critical |-> 950, optimal_max |-> 800]
      [] metric_type = GPU_USAGE ->
             [warning |-> 950, critical |-> 980, optimal_max |-> 850]
      [] metric_type = MEMORY_USAGE ->
             [warning |-> 850, critical |-> 950, optimal_max |-> 750]
      [] metric_type = DISK_USAGE ->
             [warning |-> 850, critical |-> 950, optimal_max |-> 800]
      [] OTHER -> EmptyDict

\* thresholds.get(key, default)
threshold_get(metric_type, key, default) ==
    IF key \in DOMAIN thresholds(metric_type) THEN thresholds(metric_type)[key]
    ELSE default

\* the state an InsightsEngine holds after __init__: its thresholds, its
\* AnomalyDetectionConfig and the data_directory and the cache of its
\* DataProcessor; the operators of the analysis read this configuration
NewEngine ==
    [thresholds |-> [metric_type \in {CPU_TEMP, GPU_TEMP, CPU_USAGE, GPU_USAGE,
                                      MEMORY_USAGE, DISK_USAGE} |->
                        thresholds(metric_type)],
     anomaly_config |-> [z_score_threshold |-> z_score_threshold,
                         iqr_multiplier |-> iqr_multiplier,
                         min_data_points |-> min_data_points,
                         trend_sensitivity |-> trend_sensitivity],
     data_directory |-> "data_directory",
     cache |-> EmptyDict]

(***************************************************************************)
(* InsightsEngine: anomaly detection.                                      *)
(***************************************************************************)
\* InsightsEngine._filter_data_to_period
filter_data_to_period(metric_data, start_dt, end_dt) ==
    LET kept == {i \in DOMAIN metric_data.timestamps :
                    start_dt <= metric_data.timestamps[i]
                    /\ metric_data.timestamps[i] <= end_dt}
        InPeriod(i) == i \in kept
        idx == SelectSeq([i \in DOMAIN metric_data.timestamps |-> i], InPeriod)
    IN [values |-> [k \in DOMAIN idx |-> metric_data.values[idx[k]]],
        timestamps |-> [k \in DOMAIN idx |-> metric_data.timestamps[idx[k]]]]

\* np.abs(stats.zscore(values)) > z_score_threshold for the value v of an
\* array of n values with the given sum and variance numerator; a constant
\* array has z-scores nan, which exceed nothing
z_anomaly(v, n, sum, var_num) ==
    LET d == n * v - sum
    IN 2 * 2 * d * d > z_score_threshold * z_score_threshold * var_num

\* a fence on the upper side only
iqr_anomaly_above(v, q1_4, q3_4) ==
    4 * 2 * v > 2 * q3_4 + iqr_multiplier * (q3_4 - q1_4)

\* v outside [q1 - iqr_multiplier * iqr, q3 + iqr_multiplier * iqr], for the
\* quartiles q1_4 / 4 and q3_4 / 4
iqr_anomaly(v, q1_4, q3_4) ==
    \/ 4 * 2 * v < 2 * q1_4 - iqr_multiplier * (q3_4 - q1_4)
    \/ 4 * 2 * v > 2 * q3_4 + iqr_multiplier * (q3_4 - q1_4)

\* v >= the critical threshold, for the temperature metrics
threshold_anomaly(v, metric_type) ==
    /\ metric_type \in TempMetrics
    /\ v >= threshold_get(metric_type, "critical", 1000)

\* a severity that is moderate as soon as one of the two detectors flags
severity_by_either(v, metric_type, by_z, by_iqr) ==
    IF metric_type \in TempMetrics
    THEN IF v >= threshold_get(metric_type, "critical", 1000) THEN "severe"
         ELSE IF v >= threshold_get(metric_type, "warning", 800) THEN "moderate"
         ELSE "minor"
    ELSE IF by_z \/ by_iqr THEN "moderate"
         ELSE "minor"

\* the severity of the event for value v
severity(v, metric_type, by_z, by_iqr) ==
    IF metric_type \in TempMetrics
    THEN IF v >= threshold_get(metric_type, "critical", 1000) THEN "severe"
         ELSE IF v >= threshold_get(metric_type, "warning", 800) THEN "moderate"
         ELSE "minor"
    ELSE IF by_z /\ by_iqr THEN "moderate"
         ELSE "minor"

\* expected_range, as 20 * (5th percentile) and 20 * (95th percentile)
expected_range(values) ==
    IF Len(values) >= 10
    THEN <<Percentile(values, 1, 20), Percentile(values, 19, 20)>>
    ELSE <<20 * MinOf(values), 20 * MaxOf(values)>>

\* the indices flagged by the z-score, the IQR and the threshold method
z_anomaly_indices(values) ==
    LET n == Len(values)
        sum == Sum(values)
        var_num == VarNum(values)
    IN {i \in DOMAIN values : z_anomaly(values[i], n, sum, var_num)}

iqr_anomaly_indices(values) ==
    LET q1_4 == Percentile(values, 1, 4)
        q3_4 == Percentile(values, 3, 4)
    IN {i \in DOMAIN values : iqr_anomaly(values[i], q1_4, q3_4)}

threshold_anomaly_indices(values, metric_type) ==
    {i \in DOMAIN values : threshold_anomaly(values[i], metric_type)}

\* a detection that does not look at the length of the array
detect_anomalies_unguarded(values, timestamps, metric_type) ==
    LET by_z == z_anomaly_indices(values)
        by_iqr == iqr_anomaly_indices(values)
        by_threshold == threshold_anomaly_indices(values, metric_type)
        range == expected_range(values)
        Flagged(i) == i \in by_z \cup by_iqr \cup by_threshold
        all_anomaly_indices == SelectSeq([i \in DOMAIN values |-> i], Flagged)
    IN [k \in DOMAIN all_anomaly_indices |->
           LET idx == all_anomaly_indices[k]
           IN [timestamp |-> timestamps[idx],
               value |-> values[idx],
               severity |-> severity(values[idx], metric_type,
                                     idx \in by_z, idx \in by_iqr),
               expected_range |-> range]]

\* InsightsEngine._detect_anomalies; the events are listed by index
detect_anomalies(values, timestamps, metric_type) ==
    IF Len(values) < min_data_points THEN <<>>
    ELSE LET by_z == z_anomaly_indices(values)
             by_iqr == iqr_anomaly_indices(values)
             by_threshold == threshold_anomaly_indices(values, metric_type)
             range == expected_range(values)
             Flagged(i) == i \in by_z \cup by_iqr \cup by_threshold
             all_anomaly_indices == SelectSeq([i \in DOMAIN values |-> i], Flagged)
         IN [k \in DOMAIN all_anomaly_indices |->
                LET idx == all_anomaly_indices[k]
                IN [timestamp |-> timestamps[idx],
                    value |-> values[idx],
                    severity |-> severity(values[idx], metric_type,
                                          idx \in by_z, idx \in by_iqr),
                    expected_range |-> range]]

Abs(x) == IF x < 0 THEN -x ELSE x

\* np.argmin(np.abs(values - v)): the first index of the closest value
argmin_abs(values, v) ==
    CHOOSE i \in DOMAIN values :
        /\ \A j \in DOMAIN values : Abs(values[i] - v) <= Abs(values[j] - v)
        /\ \A j \in 1..(i - 1) : Abs(values[j] - v) > Abs(values[i] - v)

\* a removal that returns the kept values in ascending order
remove_anomalies_sorted(values, anomalies) ==
    LET masked == {argmin_abs(values, anomalies[k].value) : k \in DOMAIN anomalies}
        Kept(i) == i \notin masked
        idx == SelectSeq([i \in DOMAIN values |-> i], Kept)
    IN SortNum([k \in DOMAIN idx |-> values[idx[k]]])

\* InsightsEngine._remove_anomalies
remove_anomalies(values, anomalies) ==
    IF anomalies = <<>> THEN values
    ELSE LET masked == {argmin_abs(values, anomalies[k].value) : k \in DOMAIN anomalies}
             Kept(i) == i \notin masked
             idx == SelectSeq([i \in DOMAIN values |-> i], Kept)
         IN [k \in DOMAIN idx |-> values[idx[k]]]

\* InsightsEngine._calculate_baseline_stats: mean = sum / count,
\* std ^ 2 = var_num / count ^ 2, median = median_2 / 2, q25 = q25_4 / 4,
\* q75 = q75_4 / 4, iqr = iqr_4 / 4
calculate_baseline_stats(values) ==
    IF Len(values) = 0 THEN EmptyDict
    ELSE [count |-> Len(values),
          sum |-> Sum(values),
          var_num |-> VarNum(values),
          median_2 |-> Percentile(values, 1, 2),
          min |-> MinOf(values),
          max |-> MaxOf(values),
          q25_4 |-> Percentile(values, 1, 4),
          q75_4 |-> Percentile(values, 3, 4),
          iqr_4 |-> Percentile(values, 3, 4) - Percentile(values, 1, 4)]

(***************************************************************************)
(* InsightsEngine: insights.  An insight's id and generation time are left *)
(* out; its title is the text before the metric's name.                    *)
(***************************************************************************)
CRITICAL == "critical"
WARNING == "warning"
INFO == "info"
SUCCESS == "success"

\* baseline_stats.get('mean', 0) >= bound, and <= bound
mean_at_least(stats, bound) ==
    IF "count" \in DOMAIN stats THEN stats.sum >= bound * stats.count ELSE 0 >= bound

mean_at_most(stats, bound) ==
    IF "count" \in DOMAIN stats THEN stats.sum <= bound * stats.count ELSE 0 <= bound

\* std_val > mean_val * 0.3
high_variability(stats) ==
    IF "count" \in DOMAIN stats
    THEN \/ stats.sum < 0
         \/ stats.var_num > (9 * stats.sum * stats.sum) \div 100
    ELSE FALSE

\* InsightsEngine._get_anomaly_recommendations
get_anomaly_recommendations(metric_type) ==
    IF metric_type \in {CPU_TEMP, GPU_TEMP}
    THEN <<"Investigate the cause of temperature spikes",
           "Check for sudden workload changes",
           "Verify cooling system response",
           "Monitor for recurring patterns">>
    ELSE IF metric_type \in {CPU_USAGE, GPU_USAGE}
    THEN <<"Identify applications causing usage spikes",
           "Check for background processes",
           "Monitor system performance during anomalies",
           "Consider resource allocation optimization">>
    ELSE <<"Investigate the cause of unusual values",
           "Check system stability during anomalies",
           "Monitor for patterns or correlations",
           "Verify sensor accuracy">>

\* InsightsEngine._get_cooling_recommendations
get_cooling_recommendations(metric_type) ==
    IF metric_type = CPU_TEMP
    THEN <<"Clean CPU cooler and heatsink", "Reapply thermal paste",
           "Check CPU cooler mounting", "Improve case airflow",
           "Consider upgrading CPU cooler">>
    ELSE IF metric_type = GPU_TEMP
    THEN <<"Clean GPU heatsink and fans", "Check GPU fan speeds",
           "Improve case ventilation", "Consider aftermarket GPU cooler",
           "Monitor GPU power consumption">>
    ELSE <<"Check system cooling", "Improve case airflow",
           "Clean dust from components", "Monitor ambient temperature">>

\* the level of the aggregate anomaly insight
\* a level that looks for a moderate event before a severe one
anomaly_level_moderate_first(anomalies) ==
    IF \E k \in DOMAIN anomalies : anomalies[k].severity = "moderate" THEN WARNING
    ELSE IF \E k \in DOMAIN anomalies : anomalies[k].severity = "severe" THEN CRITICAL
    ELSE INFO

anomaly_level(anomalies) ==
    IF \E k \in DOMAIN anomalies : anomalies[k].severity = "severe" THEN CRITICAL
    ELSE IF \E k \in DOMAIN anomalies : anomalies[k].severity = "moderate" THEN WARNING
    ELSE INFO

\* InsightsEngine._create_anomaly_insight
create_anomaly_insight(metric_data, anomalies, baseline_stats, start_dt, end_dt) ==
    [title |-> "Anomaly Detection",
     level |-> anomaly_level(anomalies),
     metric_type |-> metric_data.metric_type,
     component |-> metric_data.component,
     recommendations |-> get_anomaly_recommendations(metric_data.metric_type),
     data |-> baseline_stats,
     events |-> anomalies,
     period_start |-> start_dt,
     period_end |-> end_dt,
     anomaly_count |-> Len(anomalies),
     baseline_stats |-> baseline_stats]

\* InsightsEngine._create_threshold_insight
create_threshold_insight(title, level, metric_data, start_dt, end_dt, baseline_stats, recommendations) ==
    [title |-> title,
     level |-> level,
     metric_type |-> metric_data.metric_type,
     component |-> metric_data.component,
     recommendations |-> recommendations,
     data |-> baseline_stats,
     events |-> <<>>,
     period_start |-> start_dt,
     period_end |-> end_dt,
     anomaly_count |-> 0,
     baseline_stats |-> baseline_stats]

\* the value the threshold stage compares with the temperature thresholds
max_val(clean_values) == MaxOf(clean_values)

\* the temperature branch of _generate_threshold_insights
temperature_insights(metric_data, clean_values, baseline_stats, start_dt, end_dt) ==
    LET metric_type == metric_data.metric_type
    IN IF metric_type \notin TempMetrics THEN <<>>
       ELSE IF max_val(clean_values) >= threshold_get(metric_type, "critical", 1000)
       THEN <<create_threshold_insight("Critical", CRITICAL, metric_data,
                  start_dt, end_dt, baseline_stats,
                  <<"Shutdown intensive applications immediately",
                    "Check cooling system functionality",
                    "Clean dust from heatsinks and fans",
                    "Consider hardware replacement if issue persists">>)>>
       ELSE IF max_val(clean_values) >= threshold_get(metric_type, "warning", 800)
       THEN <<create_threshold_insight("High", WARNING, metric_data,
                  start_dt, end_dt, baseline_stats,
                  get_cooling_recommendations(metric_type))>>
       ELSE <<>>

\* the usage branch of _generate_threshold_insights
usage_insights(metric_data, baseline_stats, start_dt, end_dt) ==
    LET metric_type == metric_data.metric_type
    IN IF /\ metric_type \in {CPU_USAGE, GPU_USAGE, MEMORY_USAGE}
          /\ mean_at_least(baseline_stats, threshold_get(metric_type, "warning", 900))
       THEN <<create_threshold_insight("High", WARNING, metric_data,
                  start_dt, end_dt, baseline_stats,
                  <<"Identify resource-intensive applications",
                    "Close unnecessary background processes",
                    "Consider hardware upgrade if usage is consistently high">>)>>
       ELSE <<>>

\* a reliability branch that does not look at the flag
reliability_insights_always(metric_data, baseline_stats, start_dt, end_dt, reliability_warning) ==
    <<create_threshold_insight("Data Reliability Warning", WARNING, metric_data,
          start_dt, end_dt, baseline_stats,
          <<"Select a different time period",
            "Check data source quality",
            "Verify monitoring system functionality">>)>>

\* the reliability branch of _generate_threshold_insights
reliability_insights(metric_data, baseline_stats, start_dt, end_dt, reliability_warning) ==
    IF reliability_warning
    THEN <<create_threshold_insight("Data Reliability Warning", WARNING, metric_data,
               start_dt, end_dt, baseline_stats,
               <<"Select a different time period",
                 "Check data source quality",
                 "Verify monitoring system functionality">>)>>
    ELSE <<>>

\* InsightsEngine._generate_threshold_insights
generate_threshold_insights(metric_data, clean_values, baseline_stats, start_dt, end_dt, reliability_warning) ==
    IF Len(clean_values) = 0 THEN <<>>
    ELSE temperature_insights(metric_data, clean_values, baseline_stats, start_dt, end_dt)
         \o usage_insights(metric_data, baseline_stats, start_dt, end_dt)
         \o reliability_insights(metric_data, baseline_stats, start_dt, end_dt,
                                 reliability_warning)

\* InsightsEngine._generate_performance_insights
generate_performance_insights(metric_data, clean_values, baseline_stats, start_dt, end_dt) ==
    LET metric_type == metric_data.metric_type
    IN IF Len(clean_values) < 5 THEN <<>>
       ELSE (IF high_variability(baseline_stats)
             THEN <<create_threshold_insight("Variable", INFO, metric_data,
                        start_dt, end_dt, baseline_stats,
                        <<"Monitor for patterns in usage",
                          "Check for background processes causing spikes",
                          "Verify cooling system consistency">>)>>
             ELSE <<>>)
            \o (IF /\ metric_type \in TempMetrics
                   /\ mean_at_most(baseline_stats,
                                   threshold_get(metric_type, "optimal_max", 700))
                THEN <<create_threshold_insight("Optimal", SUCCESS, metric_data,
                           start_dt, end_dt, baseline_stats,
                           <<"Maintain current cooling setup",
                             "Regular cleaning schedule is working",
                             "Continue monitoring for changes">>)>>
                ELSE <<>>)

\* the in-period values _analyze_metric_with_anomalies hands to the detector;
\* <<>> when it returns before
analysed_values(metric_data, start_dt, end_dt) ==
    IF Len(metric_data.values) < min_data_points THEN <<>>
    ELSE filter_data_to_period(metric_data, start_dt, end_dt).values

\* InsightsEngine._analyze_metric_with_anomalies
analyze_metric_with_anomalies(metric_data, start_dt, end_dt) ==
    IF Len(metric_data.values) < min_data_points THEN <<>>
    ELSE
    LET filtered_data == filter_data_to_period(metric_data, start_dt, end_dt)
        values == filtered_data.values
        anomalies == detect_anomalies(values, filtered_data.timestamps,
                                      metric_data.metric_type)
        removed == remove_anomalies(values, anomalies)
        reliability_warning == Len(removed) < min_data_points
        clean_values == IF reliability_warning THEN values ELSE removed
        baseline_stats == calculate_baseline_stats(clean_values)
    IN IF values = <<>> THEN <<>>
       ELSE (IF anomalies # <<>>
             THEN <<create_anomaly_insight(metric_data, anomalies, baseline_stats,
                                           start_dt, end_dt)>>
             ELSE <<>>)
            \o generate_threshold_insights(metric_data, clean_values, baseline_stats,
                                           start_dt, end_dt, reliability_warning)
            \o generate_performance_insights(metric_data, clean_values,
                                             baseline_stats, start_dt, end_dt)

(***************************************************************************)
(* InsightsEngine: cross-metric and trend insights, analyze_period and     *)
(* get_health_summary.                                                     *)
(***************************************************************************)
\* next((d for d in metrics_data if d.metric_type == metric_type), None), as
\* a list of at most one series
first_of_type(metrics_data, metric_type) ==
    LET OfType(d) == d.metric_type = metric_type
        found == SelectSeq(metrics_data, OfType)
    IN IF found = <<>> THEN <<>> ELSE <<Head(found)>>

\* InsightsEngine._create_cross_metric_insight
create_cross_metric_insight(title, level, related_metrics, start_dt, end_dt, recommendations) ==
    [title |-> title,
     level |-> level,
     metric_type |-> related_metrics[1].metric_type,
     component |-> "system",
     recommendations |-> recommendations,
     data |-> EmptyDict,
     events |-> <<>>,
     period_start |-> start_dt,
     period_end |-> end_dt,
     anomaly_count |-> 0,
     baseline_stats |-> EmptyDict]

\* np.mean(values) > bound
mean_above(values, bound) == Sum(values) > bound * Len(values)

\* cpu_temp_values[high_usage_mask]: the temperatures at the positions where
\* the usage is above 80
high_usage_temps(cpu_temp_values, cpu_usage_values) ==
    LET High(i) == cpu_usage_values[i] > 800
        idx == SelectSeq([i \in DOMAIN cpu_usage_values |-> i], High)
    IN [k \in DOMAIN idx |-> cpu_temp_values[idx[k]]]

\* the boolean mask and the indexed array differ in length: numpy raises
\* IndexError, which _generate_cross_metric_insights does not catch
cross_metric_raises(metrics_data, start_dt, end_dt) ==
    LET cpu_temp == first_of_type(metrics_data, CPU_TEMP)
        cpu_usage == first_of_type(metrics_data, CPU_USAGE)
    IN /\ cpu_temp # <<>> /\ cpu_usage # <<>>
       /\ LET temps == filter_data_to_period(cpu_temp[1], start_dt, end_dt).values
              usage == filter_data_to_period(cpu_usage[1], start_dt, end_dt).values
          IN /\ temps # <<>> /\ usage # <<>>
             /\ \E i \in DOMAIN usage : usage[i] > 800
             /\ Len(temps) # Len(usage)

\* InsightsEngine._generate_cross_metric_insights, where it does not raise
generate_cross_metric_insights(metrics_data, start_dt, end_dt) ==
    LET cpu_temp == first_of_type(metrics_data, CPU_TEMP)
        gpu_temp == first_of_type(metrics_data, GPU_TEMP)
        cpu_usage == first_of_type(metrics_data, CPU_USAGE)
        Values(found) == filter_data_to_period(found[1], start_dt, end_dt).values
    IN (IF /\ cpu_temp # <<>> /\ gpu_temp # <<>>
           /\ Values(cpu_temp) # <<>> /\ Values(gpu_temp) # <<>>
           /\ mean_above(Values(cpu_temp), 750)
           /\ mean_above(Values(gpu_temp), 800)
        THEN <<create_cross_metric_insight("High System Temperatures", WARNING,
                   cpu_temp \o gpu_temp, start_dt, end_dt,
                   <<"Improve case airflow with additional fans",
                     "Check case ventilation and cable management",
                     "Consider upgrading to larger case with better airflow",
                     "Monitor ambient room temperature">>)>>
        ELSE <<>>)
       \o (IF /\ cpu_temp # <<>> /\ cpu_usage # <<>>
              /\ Values(cpu_temp) # <<>> /\ Values(cpu_usage) # <<>>
              /\ high_usage_temps(Values(cpu_temp), Values(cpu_usage)) # <<>>
              /\ mean_above(high_usage_temps(Values(cpu_temp), Values(cpu_usage)), 850)
           THEN <<create_cross_metric_insight("Potential Thermal Throttling", WARNING,
                      cpu_temp \o cpu_usage, start_dt, end_dt,
                      <<"Upgrade CPU cooler",
                        "Apply high-quality thermal paste",
                        "Check for proper cooler mounting",
                        "Consider undervolting if supported">>)>>
           ELSE <<>>)

\* InsightsEngine._create_trend_insight; trend_slope is the slope in tenths
\* per step, as <<numerator, denominator>>
create_trend_insight(title, level, metric_data, start_dt, end_dt, slope, recommendations) ==
    [title |-> title,
     level |-> level,
     metric_type |-> metric_data.metric_type,
     component |-> metric_data.component,
     recommendations |-> recommendations,
     data |-> [trend_slope |-> slope],
     events |-> <<>>,
     period_start |-> start_dt,
     period_end |-> end_dt,
     anomaly_count |-> 0,
     baseline_stats |-> EmptyDict]

\* the least number of in-period points _analyze_trends asks for
trend_min_points == 10

\* slope > trend_sensitivity and slope < -trend_sensitivity, for a slope of
\* num / den tenths per step with den > 0
\* a comparison that also takes a slope equal to trend_sensitivity
slope_at_least(num, den) == num >= trend_sensitivity * den
slope_increasing(num, den) == num > trend_sensitivity * den
slope_decreasing(num, den) == num < (-trend_sensitivity) * den

\* the body of the loop of _analyze_trends for one series
trend_of(metric_data, start_dt, end_dt) ==
    LET values == filter_data_to_period(metric_data, start_dt, end_dt).values
        num == SlopeNum(values)
        den == SlopeDen(values)
    IN IF Len(values) < trend_min_points THEN <<>>
       ELSE IF metric_data.metric_type \notin TempMetrics THEN <<>>
       ELSE IF slope_increasing(num, den)
       THEN <<create_trend_insight("Increasing Trend", WARNING, metric_data,
                  start_dt, end_dt, <<num, den>>,
                  <<"Clean dust from cooling components",
                    "Check thermal paste condition",
                    "Monitor fan speeds and noise",
                    "Consider preventive maintenance">>)>>
       ELSE IF slope_decreasing(num, den)
       THEN <<create_trend_insight("Improving", SUCCESS, metric_data,
                  start_dt, end_dt, <<num, den>>,
                  <<"Continue current maintenance routine",
                    "Document what changes led to improvement",
                    "Monitor for sustained improvement">>)>>
       ELSE <<>>

\* insights.extend(...) once per series: the concatenation of the lists
RECURSIVE extend_all(_)
extend_all(lists) ==
    IF lists = <<>> THEN <<>>
    ELSE Head(lists) \o extend_all(Tail(lists))

\* InsightsEngine._analyze_trends
analyze_trends(metrics_data, start_dt, end_dt) ==
    extend_all([k \in DOMAIN metrics_data |->
                   trend_of(metrics_data[k], start_dt, end_dt)])

\* the insights analyze_period builds from the series of the period
analyze_series(metrics_data, start_dt, end_dt) ==
    IF metrics_data = <<>> THEN <<>>
    ELSE extend_all([k \in DOMAIN metrics_data |->
                        analyze_metric_with_anomalies(metrics_data[k], start_dt, end_dt)])
         \o generate_cross_metric_insights(metrics_data, start_dt, end_dt)
         \o analyze_trends(metrics_data, start_dt, end_dt)

\* InsightsEngine.analyze_period, for start and end dates that parse and
\* series on which the cross-metric stage does not raise
analyze_period(dir, start_date, end_date) ==
    analyze_series(get_metrics_for_period(dir, start_date, end_date, <<>>),
                   strptime(start_date), strptime(end_date))

\* the number of insights of a level
level_count(insights, level) ==
    Cardinality({i \in DOMAIN insights : insights[i].level = level})

\* a rule that looks at the Warning insights before the Critical ones
overall_health_warning_first(level_counts) ==
    IF level_counts[WARNING] > 0 THEN "warning"
    ELSE IF level_counts[CRITICAL] > 0 THEN "critical"
    ELSE IF level_counts[SUCCESS] > level_counts[INFO] THEN "good"
    ELSE "normal"

\* the overall health from the counts per level
overall_health(level_counts) ==
    IF level_counts[CRITICAL] > 0 THEN "critical"
    ELSE IF level_counts[WARNING] > 0 THEN "warning"
    ELSE IF level_counts[SUCCESS] > level_counts[INFO] THEN "good"
    ELSE "normal"

\* a count of the recommendation strings of all insights
recommendation_strings(insights) ==
    Sum([i \in DOMAIN insights |-> Len(insights[i].recommendations)])

\* len([i for i in insights if i.recommendations])
recommendation_count(insights) ==
    Cardinality({i \in DOMAIN insights : insights[i].recommendations # <<>>})

\* the summary get_health_summary builds from the insights of the period
health_summary(insights, start_date, end_date) ==
    LET level_counts == [level \in {CRITICAL, WARNING, INFO, SUCCESS} |->
                            level_count(insights, level)]
    IN [overall_health |-> overall_health(level_counts),
        insight_counts |-> level_counts,
        total_insights |-> Len(insights),
        total_anomalies |-> Sum([i \in DOMAIN insights |-> insights[i].anomaly_count]),
        critical_issues |-> level_counts[CRITICAL],
        warnings |-> level_counts[WARNING],
        recommendations |-> recommendation_count(insights),
        period |-> [start_date |-> start_date, end_date |-> end_date]]

\* InsightsEngine.get_health_summary
get_health_summary(dir, start_date, end_date) ==
    health_summary(analyze_period(dir, start_date, end_date), start_date, end_date)

(***************************************************************************)
(* DataProcessor.get_statistics and get_system_info.                       *)
(***************************************************************************)
\* the dict get_statistics builds from the series of the metric: count and
\* the statistics of all their values, as in calculate_baseline_stats
statistics(metrics_data) ==
    LET all_values == extend_all([k \in DOMAIN metrics_data |-> metrics_data[k].values])
    IN IF metrics_data = <<>> \/ all_values = <<>> THEN EmptyDict
       ELSE calculate_baseline_stats(all_values)

\* DataProcessor.get_statistics
get_statistics(dir, start_date, end_date, metric_type) ==
    statistics(get_metrics_for_period(dir, start_date, end_date, <<metric_type>>))

\* float(pd.to_numeric(df[label], errors='coerce').dropna().mean()) as
\* <<sum, count>>; NULL where the key is not set, 0.0 where the conversion
\* raises because the label names several columns
column_mean(df, label) ==
    IF Str(label) \notin Range(df.columns) THEN NULL
    ELSE IF Count(df.columns, Str(label)) > 1 THEN <<0, 1>>
    ELSE LET idx == ColIdx(df.columns, Str(label))
             Numeric(row) == to_numeric(row[idx]) # NULL
             numeric == SelectSeq(df.rows, Numeric)
         IN IF numeric = <<>> THEN NULL
            ELSE <<Sum([r \in DOMAIN numeric |-> numeric[r][idx][2]]), Len(numeric)>>

\* the dict get_system_info builds from the dates and the latest frame
system_info(available_dates, df) ==
    [cpu_info |-> "AMD CPU (24 cores)",
     gpu_info |-> "NVIDIA GPU",
     last_update |-> available_dates[Len(available_dates)],
     memory_usage_avg |-> column_mean(df, "Memory"),
     gpu_memory |-> column_mean(df, "GPU Memory Total"),
     disk_usage |-> column_mean(df, "Used Space"),
     total_files |-> Len(available_dates),
     date_range |-> <<available_dates[1], available_dates[Len(available_dates)]>>,
     monitoring_duration |-> Len(available_dates),
     data_points |-> Len(df.rows)]

\* the processed frame of the latest date
latest_frame(dir, available_dates) ==
    LET latest_date == available_dates[Len(available_dates)]
        df == load_csv_data(dir, latest_date)
    IN IF empty(df) THEN df ELSE process_csv_data(df, latest_date)

\* DataProcessor.get_system_info
get_system_info(dir) ==
    LET available_dates == get_available_dates(dir)
    IN IF available_dates = <<>> THEN EmptyDict
       ELSE LET df == latest_frame(dir, available_dates)
            IN IF empty(df) THEN EmptyDict ELSE system_info(available_dates, df)

(***************************************************************************)
(* The recent-insights endpoint (app/api/insights.py).                     *)
(***************************************************************************)
\* insights[:10]
recent_limit == 10

\* end_date - timedelta(days=days), on the dates of January and February
date_minus(date, days) ==
    LET ordinal == strptime(date) \div SecondsPerDay - days
    IN IF ordinal <= 31 THEN <<1, ordinal>> ELSE <<2, ordinal - 31>>

\* the order of Python's str comparison on the values of InsightLevel:
\* 'critical' < 'info' < 'success' < 'warning'
level_value_rank(level) ==
    CASE level = CRITICAL -> 1
      [] level = INFO -> 2
      [] level = SUCCESS -> 3
      [] OTHER -> 4

\* insights.sort(key=lambda x: (x.level.value, x.timestamp), reverse=True);
\* timestamp is datetime.now() at the creation of the insight, so that a
\* later position of the list is a later timestamp
sort_by_level_and_timestamp(insights) ==
    LET KeyLess(i, j) ==
            \/ level_value_rank(insights[i].level) < level_value_rank(insights[j].level)
            \/ /\ insights[i].level = insights[j].level
               /\ i < j
        place == [k \in DOMAIN insights |->
                     CHOOSE i \in DOMAIN insights :
                         Cardinality({j \in DOMAIN insights : KeyLess(i, j)}) = k - 1]
    IN [k \in DOMAIN insights |-> insights[place[k]]]

\* the body of get_recent_insights after the analysis
recent_insights(insights) ==
    LET ordered == sort_by_level_and_timestamp(insights)
        top_insights == SubSeq(ordered, 1, Min(Len(ordered), recent_limit))
    IN [insights |-> top_insights,
        total_insights |-> Len(ordered),
        showing |-> Len(top_insights)]

(***************************************************************************)
(* The operations of the DataProcessor.  request is the call to serve, ret *)
(* what it returned, NoCall until then; no call writes to the directory.   *)
(***************************************************************************)
NoCall == [op |-> "none"]

GetAvailableDates ==
    /\ request.op = "get_available_dates" /\ ret = NoCall
    /\ ret' = [op |-> request.op, dates |-> get_available_dates(files)]
    /\ UNCHANGED <<files, request, engine, calls>>

LoadCsvData ==
    /\ request.op = "load_csv_data" /\ ret = NoCall
    /\ ret' = [op |-> request.op,
               resolved |-> resolved(files, request.date),
               df |-> load_csv_data(files, request.date)]
    /\ UNCHANGED <<files, request, engine, calls>>

\* load_csv_data under other settings; the environment decides whether the
\* direct read runs out of memory
LoadCsvDataUnderSettings ==
    /\ request.op = "load_csv_data_under_settings" /\ ret = NoCall
    /\ \E memory_error \in BOOLEAN :
          ret' = [op |-> request.op,
                  memory_error |-> memory_error,
                  df |-> load_csv_data_under(files, request.date, request.chunk_size,
                                             request.max_rows_per_file, memory_error)]
    /\ UNCHANGED <<files, request, engine, calls>>

ExtractMetrics ==
    /\ request.op = "extract_metrics" /\ ret = NoCall
    /\ ret' = [op |-> request.op,
               series |-> extract_metrics(request.df, request.metric_types)]
    /\ UNCHANGED <<files, request, engine, calls>>

ProcessCsvData ==
    /\ request.op = "process_csv_data" /\ ret = NoCall
    /\ ret' = [op |-> request.op, df |-> process_csv_data(request.df, request.date)]
    /\ UNCHANGED <<files, request, engine, calls>>

GetMetricsForPeriod ==
    /\ request.op = "get_metrics_for_period" /\ ret = NoCall
    /\ ret' = [op |-> request.op,
               series |-> get_metrics_for_period(files, request.start_date,
                                                 request.end_date,
                                                 request.metric_types)]
    /\ UNCHANGED <<files, request, engine, calls>>

(***************************************************************************)
(* The operations of the InsightsEngine.  ret also records the series the  *)
(* call obtained and the in-period values it analysed per series.          *)
(***************************************************************************)
AnalyzePeriod ==
    /\ request.op = "analyze_period" /\ ret = NoCall
    /\ IsDate(request.start_date) /\ IsDate(request.end_date)
    /\ \E metrics_data \in {get_metrics_for_period(files, request.start_date,
                                                   request.end_date, <<>>)} :
          LET start_dt == strptime(request.start_date)
              end_dt == strptime(request.end_date)
          IN /\ ~cross_metric_raises(metrics_data, start_dt, end_dt)
             /\ ret' = [op |-> request.op,
                        metrics |-> metrics_data,
                        analysed |-> [k \in DOMAIN metrics_data |->
                                         analysed_values(metrics_data[k], start_dt, end_dt)],
                        insights |-> analyze_series(metrics_data, start_dt, end_dt)]
    /\ UNCHANGED <<files, request, engine, calls>>

GetHealthSummary ==
    /\ request.op = "get_health_summary" /\ ret = NoCall
    /\ IsDate(request.start_date) /\ IsDate(request.end_date)
    /\ \E metrics_data \in {get_metrics_for_period(files, request.start_date,
                                                   request.end_date, <<>>)} :
          LET start_dt == strptime(request.start_date)
              end_dt == strptime(request.end_date)
          IN /\ ~cross_metric_raises(metrics_data, start_dt, end_dt)
             /\ \E insights \in {analyze_series(metrics_data, start_dt, end_dt)} :
                   ret' = [op |-> request.op,
                           insights |-> insights,
                           summary |-> health_summary(insights, request.start_date,
                                                      request.end_date)]
    /\ UNCHANGED <<files, request, engine, calls>>

\* GET /recent on the day request.today; analysed records what analyze_period
\* returned
GetRecentInsights ==
    /\ request.op = "get_recent_insights" /\ ret = NoCall
    /\ LET end_date == request.today
           start_date == date_minus(end_date, request.days)
       IN \E metrics_data \in {get_metrics_for_period(files, start_date, end_date, <<>>)} :
             /\ ~cross_metric_raises(metrics_data, strptime(start_date),
                                     strptime(end_date))
             /\ \E insights \in {analyze_series(metrics_data, strptime(start_date),
                                                strptime(end_date))} :
                   ret' = [op |-> request.op,
                           analysed |-> insights,
                           response |-> recent_insights(insights)]
    /\ UNCHANGED <<files, request, engine, calls>>

(***************************************************************************)
(* The steps of the analysis of one series, called on their own as the     *)
(* tests of the engine call them.                                          *)
(***************************************************************************)
DetectAnomalies ==
    /\ request.op = "detect_anomalies" /\ ret = NoCall
    /\ ret' = [op |-> request.op,
               anomalies |-> detect_anomalies(request.values, request.timestamps,
                                              request.metric_type)]
    /\ UNCHANGED <<files, request, engine, calls>>

RemoveAnomalies ==
    /\ request.op = "remove_anomalies" /\ ret = NoCall
    /\ ret' = [op |-> request.op,
               clean_values |-> remove_anomalies(request.values, request.anomalies)]
    /\ UNCHANGED <<files, request, engine, calls>>

CalculateBaselineStats ==
    /\ request.op = "calculate_baseline_stats" /\ ret = NoCall
    /\ ret' = [op |-> request.op, stats |-> calculate_baseline_stats(request.values)]
    /\ UNCHANGED <<files, request, engine, calls>>

AnalyzeMetricWithAnomalies ==
    /\ request.op = "analyze_metric_with_anomalies" /\ ret = NoCall
    /\ ret' = [op |-> request.op,
               insights |-> analyze_metric_with_anomalies(request.metric_data,
                                                          request.start_dt,
                                                          request.end_dt)]
    /\ UNCHANGED <<files, request, engine, calls>>

\* _generate_cross_metric_insights on its own: numpy raises IndexError where
\* the usage mask and the temperature array differ in length
GenerateCrossMetricInsights ==
    /\ request.op = "generate_cross_metric_insights" /\ ret = NoCall
    /\ ret' = IF cross_metric_raises(request.metrics_data, request.start_dt,
                                     request.end_dt)
              THEN [op |-> request.op, raised |-> "IndexError", insights |-> <<>>]
              ELSE [op |-> request.op, raised |-> "none",
                    insights |-> generate_cross_metric_insights(request.metrics_data,
                                                                request.start_dt,
                                                                request.end_dt)]
    /\ UNCHANGED <<files, request, engine, calls>>

(***************************************************************************)
(* Two calls in flight on one engine.  request and ret are then pairs, and *)
(* calls holds the frame of each call: where it is (pc) and its locals.    *)
(* A step is what a call does between two reads of the directory or of an  *)
(* object it mutates in place.                                             *)
(***************************************************************************)
NewFrame == [pc |-> "start", available_dates |-> <<>>, pending |-> <<>>,
             all_data |-> <<>>, df |-> EmptyFrame, metric_mapping |-> EmptyDict,
             metrics_data |-> <<>>]

\* the frame whose metric_mapping a call writes and reads: the dict is a local
\* of extract_metrics, created by every call
mapping_frame_shared(c) == 1

mapping_frame(c) == c

\* the dict of lines 264-272
base_mapping == [metric_type \in Range(MetricType) |->
                    metric_mapping(EmptyFrame, metric_type)]

\* metric_mapping[MetricType.CPU_TEMP].extend(cpu_core_columns)
extend_mapping(mapping, df) ==
    [mapping EXCEPT ![CPU_TEMP] = @ \o cpu_core_columns(df)]

\* the loop over target_metric_types with the dict as it is
RECURSIVE extract_each_with(_, _, _)
extract_each_with(df, types, mapping) ==
    IF types = <<>> THEN <<>>
    ELSE first_series(df, Head(types), mapping[Head(types)])
         \o extract_each_with(df, Tail(types), mapping)

\* the metric_types the call hands to get_metrics_for_period
requested_types(r) ==
    IF r.op = "get_statistics" THEN <<r.metric_type>>
    ELSE IF r.op = "get_metrics_for_period" THEN r.metric_types
    ELSE <<>>

\* what the call returns once get_metrics_for_period has returned
result(r, metrics_data) ==
    CASE r.op = "get_metrics_for_period" -> [op |-> r.op, series |-> metrics_data]
      [] r.op = "get_statistics" -> [op |-> r.op, stats |-> statistics(metrics_data)]
      [] r.op = "analyze_period" ->
             [op |-> r.op,
              insights |-> analyze_series(metrics_data, strptime(r.start_date),
                                          strptime(r.end_date))]
      [] OTHER ->
             [op |-> r.op,
              summary |-> health_summary(analyze_series(metrics_data,
                                                        strptime(r.start_date),
                                                        strptime(r.end_date)),
                                         r.start_date, r.end_date)]

\* get_available_dates, the first step of every call
ListDates(c) ==
    /\ c \in DOMAIN calls /\ calls[c].pc = "start"
    /\ LET r == request[c]
           available_dates == get_available_dates(files)
       IN IF r.op = "get_available_dates"
          THEN /\ ret' = [ret EXCEPT ![c] = [op |-> r.op, dates |-> available_dates]]
               /\ calls' = [calls EXCEPT ![c].pc = "done"]
          ELSE IF r.op = "get_system_info"
          THEN IF available_dates = <<>>
               THEN /\ ret' = [ret EXCEPT ![c] = [op |-> r.op, info |-> EmptyDict]]
                    /\ calls' = [calls EXCEPT ![c].pc = "done"]
               ELSE /\ calls' = [calls EXCEPT ![c].available_dates = available_dates,
                                              ![c].pc = "latest"]
                    /\ UNCHANGED ret
          ELSE LET in_range == IF available_dates = <<>> THEN <<>>
                               ELSE dates_in_range(available_dates, r.start_date,
                                                   r.end_date)
               IN /\ calls' = [calls EXCEPT ![c].available_dates = available_dates,
                                            ![c].pending = in_range,
                                            ![c].pc = IF in_range = <<>> THEN "extracted"
                                                      ELSE "load"]
                  /\ UNCHANGED ret
    /\ UNCHANGED <<files, request, engine>>

\* one round of the loop over dates_in_range
LoadDate(c) ==
    /\ c \in DOMAIN calls /\ calls[c].pc = "load" /\ calls[c].pending # <<>>
    /\ LET date == Head(calls[c].pending)
           df == load_csv_data(files, date)
           processed == IF empty(df) THEN df ELSE process_csv_data(df, date)
       IN calls' = [calls EXCEPT ![c].all_data =
                                     @ \o (IF empty(processed) THEN <<>>
                                           ELSE <<processed>>),
                                 ![c].pending = Tail(@)]
    /\ UNCHANGED <<files, request, ret, engine>>

\* pd.concat(all_data) and all_data.clear(), or the return of [] without data
CombineData(c) ==
    /\ c \in DOMAIN calls /\ calls[c].pc = "load" /\ calls[c].pending = <<>>
    /\ calls' = IF calls[c].all_data = <<>>
                THEN [calls EXCEPT ![c].pc = "extracted"]
                ELSE [calls EXCEPT ![c].df = concat(calls[c].all_data),
                                   ![c].all_data = <<>>,
                                   ![c].pc = "extract"]
    /\ UNCHANGED <<files, request, ret, engine>>

\* extract_metrics creates its dict
BuildMapping(c) ==
    /\ c \in DOMAIN calls /\ calls[c].pc = "extract"
    /\ calls' = IF empty(calls[c].df)
                THEN [calls EXCEPT ![c].pc = "extracted"]
                ELSE [calls EXCEPT ![mapping_frame(c)].metric_mapping = base_mapping,
                                   ![c].pc = "mapping"]
    /\ UNCHANGED <<files, request, ret, engine>>

\* extract_metrics adds the per-core columns to the dict, in place
ExtendMapping(c) ==
    /\ c \in DOMAIN calls /\ calls[c].pc = "mapping"
    /\ calls' = IF \E col \in Range(calls[c].df.columns) : ~IsStr(col)
                THEN [calls EXCEPT ![c].pc = "extracted"]
                ELSE [calls EXCEPT ![mapping_frame(c)].metric_mapping =
                                       extend_mapping(@, calls[c].df),
                                   ![c].pc = "mapped"]
    /\ UNCHANGED <<files, request, ret, engine>>

\* extract_metrics builds the series from the dict
ExtractSeries(c) ==
    /\ c \in DOMAIN calls /\ calls[c].pc = "mapped"
    /\ LET types == requested_types(request[c])
       IN calls' = [calls EXCEPT
              ![c].metrics_data =
                  extract_each_with(calls[c].df,
                                    IF types = <<>> THEN MetricType ELSE types,
                                    calls[mapping_frame(c)].metric_mapping),
              ![c].pc = "extracted"]
    /\ UNCHANGED <<files, request, ret, engine>>

\* the call goes on with what get_metrics_for_period returned, and returns
ReturnResult(c) ==
    /\ c \in DOMAIN calls /\ calls[c].pc = "extracted"
    /\ request[c].op \in {"analyze_period", "get_health_summary"} =>
           ~cross_metric_raises(calls[c].metrics_data, strptime(request[c].start_date),
                                strptime(request[c].end_date))
    /\ ret' = [ret EXCEPT ![c] = result(request[c], calls[c].metrics_data)]
    /\ calls' = [calls EXCEPT ![c].pc = "done"]
    /\ UNCHANGED <<files, request, engine>>

\* get_system_info loads and processes the latest date
LoadLatest(c) ==
    /\ c \in DOMAIN calls /\ calls[c].pc = "latest"
    /\ calls' = [calls EXCEPT ![c].df = latest_frame(files, calls[c].available_dates),
                              ![c].pc = "loaded"]
    /\ UNCHANGED <<files, request, ret, engine>>

\* get_system_info builds its dict and returns
ReturnSystemInfo(c) ==
    /\ c \in DOMAIN calls /\ calls[c].pc = "loaded"
    /\ ret' = [ret EXCEPT ![c] =
                  [op |-> request[c].op,
                   info |-> IF empty(calls[c].df) THEN EmptyDict
                            ELSE system_info(calls[c].available_dates, calls[c].df)]]
    /\ calls' = [calls EXCEPT ![c].pc = "done"]
    /\ UNCHANGED <<files, request, engine>>

(***************************************************************************)
(* Inputs.                                                                 *)
(***************************************************************************)
SeqUpTo(S, n) == UNION {[1..k -> S] : k \in 0..n}

Jan01 == <<1, 1>>
Jan31 == <<1, 31>>
Feb01 == <<2, 1>>

\* hh:mm:ss on the date
At(date, h, m, sec) == strptime(date) + 3600 * h + 60 * m + sec

LogHeader == <<Str("Time"), Str("CPU Total"), Str("GPU Core")>>

\* the directory scenarios: any few names, each file with one row
DirNames == {f \in FileNames : f.ext = "csv" \/ f.tok \in {Junk, Jan31}}

OneRowFile == [size_mb |-> 1, header |-> LogHeader,
               rows |-> <<<<Time(At(Jan31, 12, 0, 0)), Num(650), Num(700)>>>>]

Directories == {[f \in names |-> OneRowFile] :
                   names \in {n \in SUBSET DirNames : Cardinality(n) <= MaxFiles}}

\* the settings scenarios: the log file of Jan 31 with a number of rows, read
\* under a chunk size and a row cap
LongFile(n) == [size_mb |-> 1, header |-> LogHeader,
                rows |-> [i \in 1..n |->
                             <<Time(At(Jan31, 12, 0, 0) + 60 * (i - 1)), Num(650), Num(700)>>]]

LongDirectories == {LogName(Jan31) :> LongFile(n) : n \in 0..(2 * MaxChunk + 1)}

SettingsRequests ==
    {[op |-> "load_csv_data_under_settings", date |-> Jan31,
      chunk_size |-> chunk, max_rows_per_file |-> cap] :
        chunk \in 1..MaxChunk, cap \in 1..(MaxChunk + 1)}

\* the tables handed to extract_metrics
ExtractCells == {NULL, Time(At(Jan31, 12, 0, 0))}
                    \X {NULL, Num(650), Str("bad")} \X {NULL, Num(700)}

Tables == {[columns |-> <<Str("timestamp"), Str("CPU Total"), Str("CPU Core #1")>>,
            rows |-> rows] : rows \in SeqUpTo(ExtractCells, MaxRows)}
          \cup {[columns |-> <<Str("CPU Total")>>, rows |-> <<<<Num(650)>>>>]}

\* the tables handed to process_csv_data: a header row may come first, later
\* or never, and the rows around it are data rows or text
RawCells == {Str("Time"), Time(At(Jan31, 12, 0, 0)), Str("bad")}
                \X {Num(650), Str("CPU Total")}

RawHeaders == {<<Str("timestamp"), Str("CPU Total")>>, <<Str("ids"), Str("CPU Total")>>}

RawTables == {[columns |-> columns, rows |-> rows] :
                 columns \in RawHeaders, rows \in SeqUpTo(RawCells, MaxRows + 1)}

TypeLists == {<<>>, <<CPU_TEMP>>, <<CPU_USAGE, CPU_TEMP>>, <<MEMORY_USAGE>>}

\* the period scenarios: the log files of Jan 31 and Feb 1, each present or
\* not, whose rows carry any of these stamps in any order
PeriodStamps == {At(Jan31, 23, 59, 59), At(Feb01, 0, 0, 1), At(Feb01, 23, 59, 59)}

PeriodFiles == {[size_mb |-> 1, header |-> LogHeader,
                 rows |-> [i \in DOMAIN stamps |->
                              <<Time(stamps[i]), Num(600 + 10 * i), Num(700)>>]] :
                   stamps \in SeqUpTo(PeriodStamps, MaxRows)}

PeriodDirectories ==
    {[f \in names |-> IF f = LogName(Jan31) THEN a ELSE b] :
        names \in SUBSET {LogName(Jan31), LogName(Feb01)},
        a \in PeriodFiles, b \in PeriodFiles}

\* the skip scenarios: the file of a date is absent, stored under the plain
\* name "2024-MM-DD.csv" (the date is listed, its log file is missing), larger
\* than max_csv_size_mb, exactly that large, or small
FileKinds == {"absent", "plain", "oversized", "limit", "ok"}

DayFile(date, size) ==
    [size_mb |-> size, header |-> LogHeader,
     rows |-> <<<<Time(At(date, 12, 0, 0)), Num(650), Num(700)>>>>]

Placed(date, kind) ==
    CASE kind = "absent" -> <<>>
      [] kind = "plain" -> PlainName(date) :> DayFile(date, 1)
      [] kind = "oversized" -> LogName(date) :> DayFile(date, max_csv_size_mb + 1)
      [] kind = "limit" -> LogName(date) :> DayFile(date, max_csv_size_mb)
      [] OTHER -> LogName(date) :> DayFile(date, 1)

SkipDirectories == {Placed(Jan31, a) @@ Placed(Feb01, b) : a, b \in FileKinds}

Periods == {<<Jan01, Jan31>>, <<Jan31, Jan31>>, <<Jan31, Feb01>>, <<Feb01, Feb01>>,
            <<Jan01, Feb01>>, <<Feb01, Jan31>>, <<Jan31, <<2, 31>>>>}

\* the engine scenarios: one log file, of Jan 31, whose CPU column is a
\* ramp that may end in a spike and whose GPU column is empty or constant
SeriesLengths == (min_data_points - 1)..(min_data_points + ExtraPoints)
Bases == {600, 710, 850, 1000}
Steps == {-2, -1, 0, 1, 2}
Spikes == {<<>>, <<0>>, <<850>>, <<1000>>}
GpuLevels == {<<>>, <<600>>, <<900>>, <<1000>>}

\* rows a minute apart from noon, or a second apart across the midnight that
\* ends Jan 31: the tenth row (late) or the ninth row (midnight) is stamped
\* Feb 1 00:00:00
Layouts == {"noon", "late", "midnight"}

StampOf(layout, i) == IF layout = "noon" THEN At(Jan31, 12, 0, 0) + 60 * (i - 1)
                      ELSE IF layout = "late" THEN At(Jan31, 23, 59, 50) + i
                      ELSE At(Jan31, 23, 59, 51) + i

EngineRow(n, base, step, spike, gpu, layout, i) ==
    <<Time(StampOf(layout, i)),
      Num(IF spike # <<>> /\ i = n THEN spike[1] ELSE base + step * (i - 1)),
      IF gpu = <<>> THEN NULL ELSE Num(gpu[1])>>

EngineDirectories ==
    {[f \in {LogName(Jan31)} |->
         [size_mb |-> 1, header |-> LogHeader,
          rows |-> [i \in 1..n |-> EngineRow(n, base, step, spike, gpu, layout, i)]]] :
        n \in SeriesLengths, base \in Bases, step \in Steps, spike \in Spikes,
        gpu \in GpuLevels, layout \in Layouts}

EnginePeriods == {<<Jan31, Feb01>>, <<Jan31, Jan31>>}

EngineRequests ==
    {[op |-> op, start_date |-> p[1], end_date |-> p[2]] :
        op \in {"analyze_period", "get_health_summary"}, p \in EnginePeriods}
    \cup {[op |-> "get_recent_insights", today |-> Feb01, days |-> days] :
             days \in {1, 31}}

\* value arrays: readings near 60.0 with up to MaxFlagged equal readings of
\* 0.0, 85.0 or 100.0 before or after them, and the arrays of the tests
Repeat(v, k) == [i \in 1..k |-> v]
Readings(n, step) == [i \in 1..n |-> 600 + step * (i - 1)]

PatternArrays ==
    {IF front THEN Repeat(hi, k) \o Readings(n - k, step)
     ELSE Readings(n - k, step) \o Repeat(hi, k) :
        n \in SeriesLengths, k \in 0..MaxFlagged, hi \in {0, 850, 1000},
        step \in {0, 2}, front \in BOOLEAN}

IqrTestArray == <<10, 20, 30, 40, 50, 60, 70, 80, 90, 1000, 2000>>
ThresholdTestArray == <<600, 700, 800, 900, 950, 1000, 1050>>
RemoveTestArray == <<10, 20, 30, 1000, 40, 50, 2000, 60>>
StatsTestArray == <<10, 20, 30, 40, 50, 60, 70, 80, 90, 100>>
ReliabilityTestArray == Repeat(1000, 15) \o <<600, 610, 620, 630, 640>>

TestArrays == {IqrTestArray, ThresholdTestArray, RemoveTestArray, StatsTestArray,
               ReliabilityTestArray}

ValueArrays == PatternArrays \cup TestArrays

Stamps(n, layout) == [i \in 1..n |-> StampOf(layout, i)]

\* the two events test_remove_anomalies passes
RemoveTestAnomalies ==
    <<[timestamp |-> At(Jan31, 12, 0, 0), value |-> 1000, severity |-> "moderate",
       expected_range |-> <<200, 2000>>],
      [timestamp |-> At(Jan31, 12, 0, 0), value |-> 2000, severity |-> "severe",
       expected_range |-> <<200, 2000>>]>>

StepMetrics == {CPU_TEMP, GPU_TEMP, CPU_USAGE}

\* the series handed to _generate_cross_metric_insights: of each of the three
\* metric types none or one, of readings of 70.0 and 90.0 a minute apart from
\* noon of Jan 31; the period holds all of them, all but the first, or none
CrossArrays == UNION {[1..n -> {700, 900}] : n \in 1..MaxSeries}

CrossSeries(metric_type) ==
    {<<>>} \cup {<<[timestamps |-> Stamps(Len(values), "noon"),
                    values |-> values,
                    metric_type |-> metric_type,
                    component |-> "sensor",
                    unit |-> get_unit_for_metric(metric_type)]>> :
                   values \in CrossArrays}

CrossPeriods == {<<strptime(Jan31), strptime(Feb01)>>,
                 <<At(Jan31, 12, 1, 0), strptime(Feb01)>>,
                 <<strptime(Jan31), strptime(Jan31)>>}

CrossRequests ==
    {[op |-> "generate_cross_metric_insights",
      metrics_data |-> usage \o gpu \o cpu,
      start_dt |-> p[1], end_dt |-> p[2]] :
        cpu \in CrossSeries(CPU_TEMP), gpu \in CrossSeries(GPU_TEMP),
        usage \in CrossSeries(CPU_USAGE), p \in CrossPeriods}

StepRequests ==
    {[op |-> "detect_anomalies", values |-> values,
      timestamps |-> Stamps(Len(values), "noon"), metric_type |-> metric_type] :
        values \in ValueArrays, metric_type \in StepMetrics}
    \cup UNION {{[op |-> "remove_anomalies", values |-> values,
                  anomalies |-> anomalies] :
                    anomalies \in {<<>>}
                        \cup {detect_anomalies(values, Stamps(Len(values), "noon"), m) :
                                 m \in StepMetrics}} :
                values \in ValueArrays}
    \cup {[op |-> "remove_anomalies", values |-> RemoveTestArray,
           anomalies |-> RemoveTestAnomalies]}
    \cup {[op |-> "calculate_baseline_stats", values |-> values] :
             values \in ValueArrays \cup {<<>>}}
    \cup {[op |-> "analyze_metric_with_anomalies",
           metric_data |-> [timestamps |-> Stamps(Len(values), layout),
                            values |-> values,
                            metric_type |-> metric_type,
                            component |-> "cpu",
                            unit |-> get_unit_for_metric(metric_type)],
           start_dt |-> strptime(p[1]), end_dt |-> strptime(p[2])] :
             values \in ValueArrays, metric_type \in StepMetrics,
             layout \in Layouts, p \in EnginePeriods}

\* the concurrent scenarios: the log of Jan 31 has no 'CPU Total' readings
\* and a per-core column with a spike, the log of Feb 1 has one plain row
CoreFile ==
    [size_mb |-> 1,
     header |-> <<Str("Time"), Str("CPU Total"), Str("GPU Core"), Str("CPU Core #1"),
                  Str("Memory")>>,
     rows |-> [i \in 1..min_data_points |->
                  <<Time(StampOf("noon", i)), NULL, Num(900),
                    Num(IF i = min_data_points THEN 1000 ELSE 600 + i), Num(400 + i)>>]]

ConcurrentDirectories ==
    {<<>>,
     LogName(Jan31) :> CoreFile,
     LogName(Feb01) :> DayFile(Feb01, 1),
     (LogName(Jan31) :> CoreFile) @@ (LogName(Feb01) :> DayFile(Feb01, 1))}

ConcurrentRequests ==
    {[op |-> "get_available_dates"], [op |-> "get_system_info"]}
    \cup {[op |-> "get_metrics_for_period", start_date |-> p[1], end_date |-> p[2],
           metric_types |-> <<>>] :
             p \in {<<Jan31, Jan31>>, <<Feb01, Feb01>>, <<Jan31, Feb01>>}}
    \cup {[op |-> "get_statistics", start_date |-> Jan31, end_date |-> Feb01,
           metric_type |-> CPU_TEMP]}
    \cup {[op |-> op, start_date |-> Jan31, end_date |-> Feb01] :
             op \in {"analyze_period", "get_health_summary"}}

(***************************************************************************)
(* Specifications.                                                         *)
(***************************************************************************)
\* the directory listing and the loading of one date
DirRequests == {[op |-> "get_available_dates"]}
               \cup {[op |-> "load_csv_data", date |-> d] : d \in DateTokens}

\* one call at a time on a new engine
Constructed == engine = NewEngine /\ calls = <<>>

InitDir == /\ Constructed
           /\ request \in DirRequests \cup SettingsRequests
           /\ files \in IF request.op = "load_csv_data_under_settings"
                        THEN LongDirectories
                        ELSE Directories
           /\ ret = NoCall

NextDir == GetAvailableDates \/ LoadCsvData \/ LoadCsvDataUnderSettings

SpecDir == InitDir /\ [][NextDir]_vars

\* the extraction of series from a table and from the files of a period
DataRequests ==
    {[op |-> "extract_metrics", df |-> df, metric_types |-> types] :
        df \in Tables, types \in TypeLists}
    \cup {[op |-> "get_metrics_for_period", start_date |-> p[1], end_date |-> p[2],
           metric_types |-> types] : p \in Periods, types \in {<<>>, <<CPU_USAGE>>}}
    \cup {[op |-> "process_csv_data", df |-> df, date |-> Jan31] : df \in RawTables}

InitData == /\ Constructed
            /\ request \in DataRequests
            /\ files \in IF request.op \in {"extract_metrics", "process_csv_data"}
                         THEN {<<>>}
                         ELSE PeriodDirectories \cup SkipDirectories
            /\ ret = NoCall

NextData == ExtractMetrics \/ ProcessCsvData \/ GetMetricsForPeriod

SpecData == InitData /\ [][NextData]_vars

\* the analysis of a period
Init == /\ Constructed
        /\ files \in EngineDirectories /\ request \in EngineRequests /\ ret = NoCall

Next == AnalyzePeriod \/ GetHealthSummary \/ GetRecentInsights

Spec == Init /\ [][Next]_vars

\* the steps of the analysis of one series
InitSteps == /\ Constructed
             /\ files = <<>> /\ request \in StepRequests \cup CrossRequests /\ ret = NoCall

NextSteps == \/ DetectAnomalies
             \/ RemoveAnomalies
             \/ CalculateBaselineStats
             \/ AnalyzeMetricWithAnomalies
             \/ GenerateCrossMetricInsights

SpecSteps == InitSteps /\ [][NextSteps]_vars

\* two calls on one engine, their steps interleaved in every order
InitConcurrent == /\ files \in ConcurrentDirectories
                  /\ request \in {<<a, b>> : a, b \in ConcurrentRequests}
                  /\ ret = <<NoCall, NoCall>>
                  /\ engine = NewEngine
                  /\ calls = <<NewFrame, NewFrame>>

NextConcurrent == \E c \in {1, 2} : \/ ListDates(c)
                                    \/ LoadDate(c)
                                    \/ CombineData(c)
                                    \/ BuildMapping(c)
                                    \/ ExtendMapping(c)
                                    \/ ExtractSeries(c)
                                    \/ ReturnResult(c)
                                    \/ LoadLatest(c)
                                    \/ ReturnSystemInfo(c)

SpecConcurrent == InitConcurrent /\ [][NextConcurrent]_vars

(***************************************************************************)
(* Properties of the DataProcessor.                                        *)
(***************************************************************************)
Ascending(s) == \A i \in 1..(Len(s) - 1) : ~StrLess(s[i + 1], s[i])
NoDuplicates(s) == \A i, j \in DOMAIN s : i # j => s[i] # s[j]

\* C1: every series returned by extract_metrics or get_metrics_for_period has
\* as many timestamps as values.
C1_SameLength ==
    ret.op \in {"extract_metrics", "get_metrics_for_period"} =>
        \A i \in DOMAIN ret.series :
            Len(ret.series[i].timestamps) = Len(ret.series[i].values)

\* extract_metrics returned a series after dropping a row of the table
C1_Witness ==
    /\ ret.op = "extract_metrics"
    /\ \E i \in DOMAIN ret.series :
           /\ Len(ret.series[i].values) >= 1
           /\ Len(ret.series[i].values) < Len(request.df.rows)

\* C2: get_available_dates returns an ascending list without duplicates that
\* holds only tokens that parse as dates, and the same list when called again.
C2_SortedUniqueDates ==
    ret.op = "get_available_dates" =>
        /\ Ascending(ret.dates)
        /\ NoDuplicates(ret.dates)
        /\ \A i \in DOMAIN ret.dates : IsDate(ret.dates[i])
        /\ get_available_dates(files) = ret.dates

\* C3: get_metrics_for_period returns exactly the records stamped within
\* [start 00:00:00, end 23:59:59], whichever daily file stores them.
C3_RecordsWithinPeriod ==
    (ret.op = "get_metrics_for_period"
        /\ IsDate(request.start_date) /\ IsDate(request.end_date)) =>
    LET lo == strptime(request.start_date)
        hi == end_dt_inclusive(strptime(request.end_date))
        stored == UNION {{files[n].rows[r][1][2] : r \in DOMAIN files[n].rows} :
                            n \in DOMAIN files}
    IN /\ \A i \in DOMAIN ret.series :
              \A k \in DOMAIN ret.series[i].timestamps :
                  lo <= ret.series[i].timestamps[k] /\ ret.series[i].timestamps[k] <= hi
       /\ \A t \in stored :
              (lo <= t /\ t <= hi) =>
                  \A i \in DOMAIN ret.series : t \in Range(ret.series[i].timestamps)
       /\ (\E t \in stored : lo <= t /\ t <= hi) => ret.series # <<>>

\* C5: load_csv_data of a date that get_available_dates lists reads the file
\* the date was derived from.
C5_ListedDateLoads ==
    (ret.op = "load_csv_data"
        /\ request.date \in Range(get_available_dates(files))) =>
    /\ ret.resolved \in DOMAIN files
    /\ date_str(ret.resolved) = request.date
    /\ \A f \in DOMAIN files :
           (f.ext = "csv" /\ date_str(f) = request.date) =>
               ~empty(ret.df)

(***************************************************************************)
(* Properties of the InsightsEngine.                                       *)
(***************************************************************************)
\* the values of a series stamped within [lo, hi]
ValuesWithin(m, lo, hi) ==
    LET Within(i) == lo <= m.timestamps[i] /\ m.timestamps[i] <= hi
        idx == SelectSeq([i \in DOMAIN m.timestamps |-> i], Within)
    IN [k \in DOMAIN idx |-> m.values[idx[k]]]

\* the insights of ret about a metric with one of the titles
InsightsOf(metric_type, titles) ==
    {i \in DOMAIN ret.insights : /\ ret.insights[i].metric_type = metric_type
                                 /\ ret.insights[i].title \in titles}

Number(level) == Cardinality({i \in DOMAIN ret.insights : ret.insights[i].level = level})

\* C4: analyze_period analyses every record of the series of the period,
\* through end 23:59:59, also for a period of a single day.
C4_AnalysesWholeEndDate ==
    ret.op = "analyze_period" =>
        \A k \in DOMAIN ret.metrics :
            Len(ret.metrics[k].values) >= min_data_points =>
                ret.analysed[k] =
                    ValuesWithin(ret.metrics[k], strptime(request.start_date),
                                 strptime(request.end_date) + SecondsPerDay - 1)

\* C6: overall_health is critical when an insight is Critical, else warning
\* when one is Warning, else good when the Success insights outnumber the
\* Info insights, else normal.
C6_OverallHealth ==
    ret.op = "get_health_summary" =>
        ret.summary.overall_health =
            IF Number(CRITICAL) > 0 THEN "critical"
            ELSE IF Number(WARNING) > 0 THEN "warning"
            ELSE IF Number(SUCCESS) > Number(INFO) THEN "good"
            ELSE "normal"

\* a Critical insight together with more Success than Info insights
C6_Witness ==
    /\ ret.op = "get_health_summary"
    /\ Number(CRITICAL) > 0 /\ Number(WARNING) > 0
    /\ Number(SUCCESS) > Number(INFO)
    /\ ret.summary.overall_health = "critical"

\* C7: the counts of the health summary: the insights of analyze_period, the
\* four levels, the anomalies, and the insights that carry a recommendation.
C7_SummaryCounts ==
    ret.op = "get_health_summary" =>
        /\ ret.summary.total_insights
               = Len(analyze_period(files, request.start_date, request.end_date))
        /\ ret.summary.insight_counts[CRITICAL] + ret.summary.insight_counts[WARNING]
               + ret.summary.insight_counts[INFO] + ret.summary.insight_counts[SUCCESS]
               = ret.summary.total_insights
        /\ \A level \in {CRITICAL, WARNING, INFO, SUCCESS} :
               ret.summary.insight_counts[level] = Number(level)
        /\ ret.summary.critical_issues = Number(CRITICAL)
        /\ ret.summary.warnings = Number(WARNING)
        /\ ret.summary.total_anomalies
               = Sum([i \in DOMAIN ret.insights |-> ret.insights[i].anomaly_count])
        /\ ret.summary.recommendations
               = Cardinality({i \in DOMAIN ret.insights :
                                 Len(ret.insights[i].recommendations) >= 1})

\* a summary of several insights of several levels, with anomalies
C7_Witness ==
    /\ ret.op = "get_health_summary"
    /\ ret.summary.total_anomalies >= 2
    /\ ret.summary.critical_issues >= 1 /\ ret.summary.warnings >= 1
    /\ ret.summary.insight_counts[SUCCESS] >= 1
    /\ ret.summary.recommendations = ret.summary.total_insights
    /\ \E i \in DOMAIN ret.insights : Len(ret.insights[i].recommendations) >= 2

\* C8: for a temperature series of at least min_data_points in-period points
\* the threshold stage emits a Critical insight when the maximum of the series
\* is at or above the critical threshold, a Warning High insight when it is at
\* or above the warning threshold and below the critical one, never both.
C8_ThresholdOnSeriesMaximum ==
    ret.op = "analyze_period" =>
        \A k \in DOMAIN ret.metrics :
            LET m == ret.metrics[k].metric_type
                values == ret.analysed[k]
            IN (m \in TempMetrics /\ Len(values) >= min_data_points) =>
                   /\ MaxOf(values) >= thresholds(m).critical
                          => InsightsOf(m, {"Critical"}) # {}
                   /\ (MaxOf(values) >= thresholds(m).warning
                          /\ MaxOf(values) < thresholds(m).critical)
                          => InsightsOf(m, {"High"}) # {}
                   /\ ~(InsightsOf(m, {"Critical"}) # {} /\ InsightsOf(m, {"High"}) # {})

\* C9: a temperature series of at least min_data_points in-period points and
\* of mean at most 70 yields a Success Optimal insight and no Warning insight
\* of the same metric.
C9_OptimalWithoutWarning ==
    ret.op = "analyze_period" =>
        \A k \in DOMAIN ret.metrics :
            LET m == ret.metrics[k].metric_type
                values == ret.analysed[k]
            IN (/\ m \in TempMetrics
                /\ Len(values) >= min_data_points
                /\ Sum(values) <= 700 * Len(values)) =>
                   /\ \E i \in InsightsOf(m, {"Optimal"}) :
                          ret.insights[i].level = SUCCESS
                   /\ \A i \in DOMAIN ret.insights :
                          (ret.insights[i].metric_type = m
                              /\ ret.insights[i].component = ret.metrics[k].component)
                              => ret.insights[i].level # WARNING

\* the trend insights of ret about the series
TrendInsights(series) ==
    {i \in DOMAIN ret.insights : /\ ret.insights[i].metric_type = series.metric_type
                                 /\ "trend_slope" \in DOMAIN ret.insights[i].data}

\* C10: for a temperature series of at least 10 in-period points the trend
\* stage emits a Warning Increasing Trend insight when the least-squares slope
\* is above 0.1 per step, a Success insight when it is below -0.1, nothing
\* otherwise, and stores the slope; a shorter series and a series of another
\* metric yield no trend insight.
C10_TrendBySlope ==
    ret.op = "analyze_period" =>
        \A k \in DOMAIN ret.metrics :
            LET series == ret.metrics[k]
                values == ValuesWithin(series, strptime(request.start_date),
                                       strptime(request.end_date))
                found == TrendInsights(series)
            IN IF Len(values) < 10 \/ series.metric_type \notin TempMetrics
               THEN found = {}
               ELSE IF SlopeNum(values) > SlopeDen(values)
               THEN /\ Cardinality(found) = 1
                    /\ \A i \in found :
                           /\ ret.insights[i].level = WARNING
                           /\ ret.insights[i].title = "Increasing Trend"
                           /\ ret.insights[i].data.trend_slope
                                  = <<SlopeNum(values), SlopeDen(values)>>
                           /\ ret.insights[i].data.trend_slope[1] > 0
               ELSE IF SlopeNum(values) < -SlopeDen(values)
               THEN /\ Cardinality(found) = 1
                    /\ \A i \in found :
                           /\ ret.insights[i].level = SUCCESS
                           /\ ret.insights[i].data.trend_slope
                                  = <<SlopeNum(values), SlopeDen(values)>>
               ELSE found = {}

\* a series that rises by 0.2 per step over at least 10 in-period points and
\* its Warning insight with that slope
C10_Witness ==
    /\ ret.op = "analyze_period"
    /\ \E k \in DOMAIN ret.metrics :
           /\ Len(ret.analysed[k]) >= 10
           /\ \A j \in 1..(Len(ret.analysed[k]) - 1) :
                  ret.analysed[k][j + 1] = ret.analysed[k][j] + 2
           /\ \E i \in TrendInsights(ret.metrics[k]) :
                  /\ ret.insights[i].level = WARNING
                  /\ ret.insights[i].data.trend_slope[1]
                         = 2 * ret.insights[i].data.trend_slope[2]

(***************************************************************************)
(* Properties of the steps of the analysis.                                *)
(***************************************************************************)
\* the values of the events of ret
EventValues == {ret.anomalies[k].value : k \in DOMAIN ret.anomalies}

\* v < Q1 - 1.5 * IQR or v > Q3 + 1.5 * IQR, with the quartiles of the array
OutsideFences(v, values) ==
    LET q1_4 == Percentile(values, 1, 4)
        q3_4 == Percentile(values, 3, 4)
    IN \/ 8 * v < 2 * q1_4 - 3 * (q3_4 - q1_4)
       \/ 8 * v > 2 * q3_4 + 3 * (q3_4 - q1_4)

\* C11: for an array of at least min_data_points values _detect_anomalies
\* returns an event for every value strictly outside the IQR fences and for
\* every index one of the three detectors flags; for the array of the test
\* the values 100 and 200 are among the events.
C11_IqrOutliersAreEvents ==
    (ret.op = "detect_anomalies" /\ Len(request.values) >= min_data_points) =>
        /\ \A i \in DOMAIN request.values :
               OutsideFences(request.values[i], request.values) =>
                   \E k \in DOMAIN ret.anomalies :
                       /\ ret.anomalies[k].value = request.values[i]
                       /\ ret.anomalies[k].timestamp = request.timestamps[i]
        /\ \A i \in z_anomaly_indices(request.values)
                    \cup iqr_anomaly_indices(request.values)
                    \cup threshold_anomaly_indices(request.values, request.metric_type) :
               \E k \in DOMAIN ret.anomalies :
                   ret.anomalies[k].timestamp = request.timestamps[i]
        /\ request.values = IqrTestArray => {1000, 2000} \subseteq EventValues

\* the array of the test: 100 is outside the fences and within 2.5 standard
\* deviations of the mean, and is an event
C11_Witness ==
    /\ ret.op = "detect_anomalies"
    /\ request.values = IqrTestArray
    /\ request.metric_type = CPU_USAGE
    /\ 10 \notin z_anomaly_indices(request.values)
    /\ OutsideFences(1000, request.values)
    /\ EventValues = {1000, 2000}

\* 4 times the value at rank q * (n - 1) / 4 of the sorted array, linearly
\* interpolated between the neighbouring elements
Interpolated(values, q) ==
    LET a == SortNum(values)
        lo == (q * (Len(a) - 1)) \div 4
        r == (q * (Len(a) - 1)) % 4
    IN IF r = 0 THEN 4 * a[lo + 1]
       ELSE 4 * a[lo + 1] + r * (a[lo + 2] - a[lo + 1])

\* C12: _calculate_baseline_stats returns the mean, median, std, min, max,
\* q25, q75 and iqr of its input, the quartiles linearly interpolated and
\* iqr = q75 - q25; for 1..10 it returns mean 5.5, median 5.5, min 1, max 10,
\* q25 3.25, q75 7.75 and iqr 4.5; for an empty array an empty map.
C12_BaselineStats ==
    ret.op = "calculate_baseline_stats" =>
        LET values == request.values
            stats == ret.stats
        IN IF values = <<>> THEN stats = EmptyDict
           ELSE /\ stats.count = Len(values)
                /\ stats.sum = Sum(values)
                /\ stats.var_num = Len(values) * Sum([i \in DOMAIN values |->
                                                         values[i] * values[i]])
                                       - Sum(values) * Sum(values)
                /\ \A i \in DOMAIN values : stats.min <= values[i] /\ values[i] <= stats.max
                /\ \E i, j \in DOMAIN values : stats.min = values[i] /\ stats.max = values[j]
                /\ stats.q25_4 = Interpolated(values, 1)
                /\ 2 * stats.median_2 = Interpolated(values, 2)
                /\ stats.q75_4 = Interpolated(values, 3)
                /\ stats.iqr_4 = stats.q75_4 - stats.q25_4
                /\ values = StatsTestArray =>
                       /\ stats.sum = 55 * stats.count
                       /\ stats.median_2 = 2 * 55
                       /\ stats.min = 10 /\ stats.max = 100
                       /\ stats.q25_4 = 130 /\ stats.q75_4 = 310
                       /\ stats.iqr_4 = 180

\* the statistics of 1..10
C12_Witness ==
    /\ ret.op = "calculate_baseline_stats"
    /\ request.values = StatsTestArray
    /\ ret.stats.q25_4 = 130 /\ ret.stats.q75_4 = 310 /\ ret.stats.iqr_4 = 180

\* C13: _remove_anomalies called with an empty list of anomalies returns the
\* value array unchanged: the same elements in the same order.
C13_NothingToRemove ==
    (ret.op = "remove_anomalies" /\ request.anomalies = <<>>) =>
        ret.clean_values = request.values

\* an array that begins with its largest readings, returned as it is
C13_Witness ==
    /\ ret.op = "remove_anomalies"
    /\ request.anomalies = <<>>
    /\ Len(request.values) >= min_data_points
    /\ request.values[1] > request.values[Len(request.values)]
    /\ ret.clean_values = request.values

\* the recorded values of the anomalies of the request
AnomalyValues == {request.anomalies[k].value : k \in DOMAIN request.anomalies}

\* C14: _remove_anomalies removes every anomalous value: the result has
\* len(values) - len(anomalies) elements, none of them equal to the recorded
\* value of an anomaly, and the remaining elements are in their original order.
C14_EveryAnomalyRemoved ==
    ret.op = "remove_anomalies" =>
        LET Remaining(v) == v \notin AnomalyValues
        IN /\ Len(ret.clean_values) = Len(request.values) - Len(request.anomalies)
           /\ \A i \in DOMAIN ret.clean_values : ret.clean_values[i] \notin AnomalyValues
           /\ ret.clean_values = SelectSeq(request.values, Remaining)

\* the in-period part of the series of the request
InPeriod == filter_data_to_period(request.metric_data, request.start_dt, request.end_dt)

\* the array left when the anomalies detected on the in-period values are
\* removed from them
LeftAfterRemoval ==
    remove_anomalies(InPeriod.values,
                     detect_anomalies(InPeriod.values, InPeriod.timestamps,
                                      request.metric_data.metric_type))

\* the call went past the two early returns of _analyze_metric_with_anomalies
ReachedRemoval ==
    /\ ret.op = "analyze_metric_with_anomalies"
    /\ Len(request.metric_data.values) >= min_data_points
    /\ InPeriod.values # <<>>

ReliabilityWarned ==
    \E i \in DOMAIN ret.insights : ret.insights[i].title = "Data Reliability Warning"

\* C15: _analyze_metric_with_anomalies emits a Data Reliability Warning if and
\* only if the array left after anomaly removal has fewer than min_data_points
\* elements; then, and only then, the baseline statistics are those of the
\* unfiltered in-period array.
C15_ReliabilityFallback ==
    ReachedRemoval =>
        /\ ReliabilityWarned <=> Len(LeftAfterRemoval) < min_data_points
        /\ \A i \in DOMAIN ret.insights :
               ret.insights[i].baseline_stats =
                   IF Len(LeftAfterRemoval) < min_data_points
                   THEN calculate_baseline_stats(InPeriod.values)
                   ELSE calculate_baseline_stats(LeftAfterRemoval)

\* a removal that leaves fewer than min_data_points of the in-period values:
\* the warning, and statistics that count every in-period value
C15_Witness ==
    /\ ReachedRemoval
    /\ Len(LeftAfterRemoval) < Len(InPeriod.values)
    /\ Len(LeftAfterRemoval) < min_data_points
    /\ ReliabilityWarned
    /\ \A i \in DOMAIN ret.insights :
           ret.insights[i].baseline_stats.count = Len(InPeriod.values)

\* the events detected on the in-period values of the request
Detected ==
    detect_anomalies(InPeriod.values, InPeriod.timestamps,
                     request.metric_data.metric_type)

\* C16: when so many in-period points are flagged as anomalous that fewer than
\* min_data_points points are not flagged, _analyze_metric_with_anomalies
\* returns an insight titled Data Reliability Warning.
C16_WarningWhenMostFlagged ==
    (/\ ReachedRemoval
     /\ Detected # <<>>
     /\ Len(InPeriod.values) - Len(Detected) < min_data_points) => ReliabilityWarned

\* C17: a series with fewer than min_data_points points inside the analysed
\* period yields no insight from _analyze_metric_with_anomalies, also when it
\* has min_data_points or more points in total.
C17_NoInsightBelowMinimum ==
    (/\ ret.op = "analyze_metric_with_anomalies"
     /\ Len(InPeriod.values) < min_data_points) => ret.insights = <<>>

C19_CriticalValuesAreEvents ==
    (ret.op = "detect_anomalies" /\ request.metric_type \in TempMetrics) =>
        \A i \in DOMAIN request.values :
            request.values[i] >= thresholds(request.metric_type).critical =>
                request.values[i] \in EventValues

(***************************************************************************)
(* Properties of extract_metrics.                                          *)
(***************************************************************************)
\* the valid data points of the first column labelled col: the rows with a
\* timestamp and a number in that column, as <<timestamp, value>>
ValidPoints(df, col) ==
    IF col \notin Range(df.columns) \/ Str("timestamp") \notin Range(df.columns)
    THEN <<>>
    ELSE LET t == ColIdx(df.columns, Str("timestamp"))
             c == ColIdx(df.columns, col)
             Valid(row) == IsTime(row[t]) /\ IsNum(row[c])
             rows == SelectSeq(df.rows, Valid)
         IN [r \in DOMAIN rows |-> <<rows[r][t][2], rows[r][c][2]>>]

\* the candidate columns of the type that have a valid data point, in
\* priority order
Candidates(df, metric_type) ==
    LET HasPoint(col) == ValidPoints(df, col) # <<>>
    IN SelectSeq(metric_mapping(df, metric_type), HasPoint)

\* C20: a requested metric type contributes at most one series to the result
\* of extract_metrics, taken from the first candidate column in priority order
\* that is present and has a valid data point, with the points of that column
\* only; a requested type without such a column is absent from the result.
C20_FirstCandidateOnly ==
    ret.op = "extract_metrics" =>
        LET df == request.df
            requested == IF request.metric_types = <<>> THEN MetricType
                         ELSE request.metric_types
            OfType(t) == {k \in DOMAIN ret.series : ret.series[k].metric_type = t}
        IN /\ \A k \in DOMAIN ret.series : ret.series[k].metric_type \in Range(requested)
           /\ \A t \in Range(requested) :
                  IF Candidates(df, t) = <<>> THEN OfType(t) = {}
                  ELSE /\ Cardinality(OfType(t)) = 1
                       /\ \A k \in OfType(t) :
                              LET points == ValidPoints(df, Candidates(df, t)[1])
                              IN /\ ret.series[k].component = Candidates(df, t)[1][2]
                                 /\ ret.series[k].timestamps
                                        = [i \in DOMAIN points |-> points[i][1]]
                                 /\ ret.series[k].values
                                        = [i \in DOMAIN points |-> points[i][2]]

\* CPU usage and CPU temperature requested from a table whose 'CPU Total'
\* column has no valid point while 'CPU Core #1' has one in two rows: CPU
\* usage is absent and the CPU temperature is taken from 'CPU Core #1'
C20_Witness ==
    /\ ret.op = "extract_metrics"
    /\ request.metric_types = <<CPU_USAGE, CPU_TEMP>>
    /\ Len(metric_mapping(request.df, CPU_TEMP)) = 2
    /\ Str("CPU Total") \in Range(request.df.columns)
    /\ ValidPoints(request.df, Str("CPU Total")) = <<>>
    /\ Len(ret.series) = 1
    /\ ret.series[1].metric_type = CPU_TEMP
    /\ ret.series[1].component = "CPU Core #1"
    /\ Len(ret.series[1].values) = 2

(***************************************************************************)
(* Properties of get_metrics_for_period on missing and oversized files.    *)
(***************************************************************************)
\* the files load_csv_data reads: named as a log file and not too large
Loadable(dir) == {f \in DOMAIN dir : f = LogName(date_str(f))
                                      /\ dir[f].size_mb <= max_csv_size_mb}

\* the loadable files whose date lies in the requested range
LoadableInRange(dir, start_date, end_date) ==
    {f \in Loadable(dir) :
        /\ IsDate(date_str(f))
        /\ strptime(start_date) <= strptime(date_str(f))
        /\ strptime(date_str(f)) <= strptime(end_date) + SecondsPerDay - 1}

\* C21: get_metrics_for_period skips a date of the range whose file is absent
\* or larger than max_csv_size_mb and builds the series from the other dates;
\* it returns the empty list when no date of the range yields data.
C21_SkipsMissingAndOversized ==
    (ret.op = "get_metrics_for_period"
        /\ IsDate(request.start_date) /\ IsDate(request.end_date)) =>
    LET kept == LoadableInRange(files, request.start_date, request.end_date)
        stamps == UNION {{files[f].rows[r][1][2] : r \in DOMAIN files[f].rows} :
                            f \in kept}
    IN /\ ret.series = get_metrics_for_period([f \in kept |-> files[f]],
                                              request.start_date, request.end_date,
                                              request.metric_types)
       /\ \A i \in DOMAIN ret.series : Range(ret.series[i].timestamps) = stamps
       /\ (stamps = {}) <=> (ret.series = <<>>)

\* a call that skipped an oversized file or a listed date without a log file
\* and built its series from the file of the other date
C21_Witness ==
    /\ ret.op = "get_metrics_for_period"
    /\ request.start_date = Jan31 /\ request.end_date = Feb01
    /\ \/ /\ LogName(Jan31) \in DOMAIN files
           /\ files[LogName(Jan31)].size_mb > max_csv_size_mb
        \/ PlainName(Jan31) \in DOMAIN files
    /\ LogName(Feb01) \in DOMAIN files
    /\ ret.series # <<>>
    /\ \A i \in DOMAIN ret.series :
           ret.series[i].timestamps = <<At(Feb01, 12, 0, 0)>>

\* C23: the timestamps of every series get_metrics_for_period returns are in
\* ascending order, whatever the order and the dates of the rows in the files.
C23_AscendingTimestamps ==
    ret.op = "get_metrics_for_period" =>
        \A i \in DOMAIN ret.series :
            \A k \in 1..(Len(ret.series[i].timestamps) - 1) :
                ret.series[i].timestamps[k] <= ret.series[i].timestamps[k + 1]

(***************************************************************************)
(* Properties of process_csv_data.                                         *)
(***************************************************************************)
\* the rows of the table whose leading cell contains 'Time'
HeaderRows(df) == {i \in DOMAIN df.rows : ContainsTime(df.rows[i][1])}

FirstHeaderRow(df) == CHOOSE i \in HeaderRows(df) : \A j \in HeaderRows(df) : i <= j

\* C26: process_csv_data makes the first row whose leading cell contains
\* 'Time' the header and drops that row and every row before it; without such
\* a row it keeps the header and drops no row for that reason.
C26_HeaderPromotion ==
    (ret.op = "process_csv_data" /\ ~empty(request.df)) =>
    IF HeaderRows(request.df) = {}
    THEN /\ SubSeq(ret.df.columns, 1, Len(request.df.columns)) = request.df.columns
         /\ Len(ret.df.rows) =
                Cardinality({i \in DOMAIN request.df.rows :
                                \/ request.df.columns[1] # Str("timestamp")
                                \/ IsTime(request.df.rows[i][1])})
    ELSE LET h == FirstHeaderRow(request.df)
             after == SubSeq(request.df.rows, h, Len(request.df.rows))
         IN /\ SubSeq(ret.df.columns, 1, Len(request.df.columns)) = request.df.rows[h]
            /\ Len(ret.df.rows) <= Len(request.df.rows) - h
            /\ ret.df = process_csv_data([request.df EXCEPT !.rows = after],
                                         request.date)

(***************************************************************************)
(* Properties of load_csv_data under other settings.                       *)
(***************************************************************************)
\* C27: load_csv_data returns at most max_rows_per_file rows, on the direct
\* read and on the chunked fallback, for every chunk size, cap and file length.
C27_RowCap ==
    ret.op = "load_csv_data_under_settings" =>
        Len(ret.df.rows) <= request.max_rows_per_file

(***************************************************************************)
(* Properties of the temperature and the usage series.                     *)
(***************************************************************************)
\* the series of the result with this metric type
SeriesOf(metric_type) ==
    {ret.series[i] : i \in {k \in DOMAIN ret.series :
                               ret.series[k].metric_type = metric_type}}

SameReadings(temp_type, usage_type, column) ==
    \A t \in SeriesOf(temp_type) : \A u \in SeriesOf(usage_type) :
        /\ t.component = column /\ u.component = column
        /\ t.timestamps = u.timestamps
        /\ t.values = u.values

\* C29: a CPU temperature and a CPU usage series of one result are both taken
\* from 'CPU Total' and have the same timestamps and values, likewise the GPU
\* ones from 'GPU Core'; a per-core column serves as CPU temperature only in a
\* result without a CPU usage series.
C29_TemperatureIsUsage ==
    ret.op \in {"extract_metrics", "get_metrics_for_period"} =>
        /\ SameReadings(CPU_TEMP, CPU_USAGE, "CPU Total")
        /\ SameReadings(GPU_TEMP, GPU_USAGE, "GPU Core")
        /\ (\E t \in SeriesOf(CPU_TEMP) : t.component \in CoreLabels)
               => SeriesOf(CPU_USAGE) = {}

\* extract_metrics returned a CPU temperature and a CPU usage series from a
\* table that also has readings in a per-core column
C29_Witness ==
    /\ ret.op = "extract_metrics"
    /\ SeriesOf(CPU_TEMP) # {} /\ SeriesOf(CPU_USAGE) # {}
    /\ \E r \in DOMAIN request.df.rows :
           /\ Len(request.df.rows[r]) = 3
           /\ IsNum(request.df.rows[r][2]) /\ IsNum(request.df.rows[r][3])
           /\ IsTime(request.df.rows[r][1])

(***************************************************************************)
(* Properties of the anomaly events and of the anomaly insight.            *)
(***************************************************************************)
\* |v - mean| / std > 2.5, with mean and population std of the array
ZOutlier(v, values) ==
    LET n == Len(values)
        d == n * v - Sum(values)
    IN 4 * d * d > 25 * (n * SumSq(values) - Sum(values) * Sum(values))

Critical(metric_type) == IF metric_type = CPU_TEMP THEN cpu_temp_critical
                         ELSE gpu_temp_critical

Warning(metric_type) == IF metric_type = CPU_TEMP THEN cpu_temp_warning
                        ELSE gpu_temp_warning

\* the indices _detect_anomalies flags in the array of the request
FlaggedIndices ==
    IF Len(request.values) < min_data_points THEN {}
    ELSE {i \in DOMAIN request.values :
             \/ ZOutlier(request.values[i], request.values)
             \/ OutsideFences(request.values[i], request.values)
             \/ /\ request.metric_type \in {CPU_TEMP, GPU_TEMP}
                /\ request.values[i] >= Critical(request.metric_type)}

SeverityOf(i) ==
    IF request.metric_type \in {CPU_TEMP, GPU_TEMP}
    THEN IF request.values[i] >= Critical(request.metric_type) THEN "severe"
         ELSE IF request.values[i] >= Warning(request.metric_type) THEN "moderate"
         ELSE "minor"
    ELSE IF ZOutlier(request.values[i], request.values)
            /\ OutsideFences(request.values[i], request.values)
         THEN "moderate"
         ELSE "minor"

\* C24: _detect_anomalies builds exactly one event per flagged index, with the
\* severity by the thresholds for a temperature metric and by the agreement of
\* the z-score and the IQR detector for another one, and every expected_range
\* has low <= high.
C24_EventSeverity ==
    ret.op = "detect_anomalies" =>
        /\ Len(ret.anomalies) = Cardinality(FlaggedIndices)
        /\ \A i \in FlaggedIndices :
               Cardinality({k \in DOMAIN ret.anomalies :
                               ret.anomalies[k].timestamp = request.timestamps[i]}) = 1
        /\ \A i \in FlaggedIndices : \A k \in DOMAIN ret.anomalies :
               ret.anomalies[k].timestamp = request.timestamps[i] =>
                   /\ ret.anomalies[k].value = request.values[i]
                   /\ ret.anomalies[k].severity = SeverityOf(i)
        /\ \A k \in DOMAIN ret.anomalies :
               ret.anomalies[k].expected_range[1] <= ret.anomalies[k].expected_range[2]

\* a usage array with events that only the IQR detector flagged
C24_Witness ==
    /\ ret.op = "detect_anomalies"
    /\ request.metric_type = CPU_USAGE
    /\ Len(ret.anomalies) >= 2
    /\ \A k \in DOMAIN ret.anomalies : ret.anomalies[k].severity = "minor"
    /\ \E i \in FlaggedIndices : ~ZOutlier(request.values[i], request.values)

\* the anomalies of a series of the period: none when the series is shorter
\* than min_data_points, else those detected on its in-period readings
AnomaliesOf(m) ==
    LET in_period == filter_data_to_period(m, strptime(request.start_date),
                                           strptime(request.end_date))
    IN IF Len(m.values) < min_data_points THEN <<>>
       ELSE detect_anomalies(in_period.values, in_period.timestamps, m.metric_type)

\* the anomaly insights of a metric type in the result
AnomalyInsights(metric_type) ==
    {i \in DOMAIN ret.insights : /\ ret.insights[i].title = "Anomaly Detection"
                                 /\ ret.insights[i].metric_type = metric_type}

Severities(events) == {events[k].severity : k \in DOMAIN events}

\* C25: a metric with anomalies gets exactly one anomaly insight and a metric
\* without gets none; the insight is Critical with a severe event, else Warning
\* with a moderate one, else Info, it lists the detected anomalies and counts
\* them; every other insight has no events and anomaly_count 0.
C25_OneAnomalyInsight ==
    ret.op = "analyze_period" =>
        /\ \A k \in DOMAIN ret.metrics :
               LET anomalies == AnomaliesOf(ret.metrics[k])
                   found == AnomalyInsights(ret.metrics[k].metric_type)
               IN /\ Cardinality(found) = IF anomalies = <<>> THEN 0 ELSE 1
                  /\ \A i \in found :
                         /\ ret.insights[i].events = anomalies
                         /\ ret.insights[i].anomaly_count = Len(ret.insights[i].events)
                         /\ ret.insights[i].level =
                                IF "severe" \in Severities(anomalies) THEN CRITICAL
                                ELSE IF "moderate" \in Severities(anomalies) THEN WARNING
                                ELSE INFO
        /\ \A i \in DOMAIN ret.insights :
               ret.insights[i].title # "Anomaly Detection" =>
                   /\ ret.insights[i].events = <<>>
                   /\ ret.insights[i].anomaly_count = 0

\* an analysis with an anomaly insight over severe and moderate events, next
\* to insights of other kinds
C25_Witness ==
    /\ ret.op = "analyze_period"
    /\ \E i \in DOMAIN ret.insights :
           /\ ret.insights[i].title = "Anomaly Detection"
           /\ {"severe", "moderate"} \subseteq Severities(ret.insights[i].events)
           /\ ret.insights[i].anomaly_count >= 2
    /\ \E i \in DOMAIN ret.insights : ret.insights[i].title # "Anomaly Detection"

(***************************************************************************)
(* Properties of _generate_cross_metric_insights.                          *)
(***************************************************************************)
\* the in-period values of the first series of the type, <<>> without one
CrossValues(metric_type) ==
    LET found == {i \in DOMAIN request.metrics_data :
                     request.metrics_data[i].metric_type = metric_type}
        first == CHOOSE i \in found : \A j \in found : i <= j
    IN IF found = {} THEN <<>>
       ELSE ValuesWithin(request.metrics_data[first], request.start_dt, request.end_dt)

Titled(title) == {i \in DOMAIN ret.insights : ret.insights[i].title = title}

\* the positions of the usage values above 80
HighUsage == {i \in DOMAIN CrossValues(CPU_USAGE) : CrossValues(CPU_USAGE)[i] > 800}

\* the sum of the temperatures at those positions
RECURSIVE TempSum(_)
TempSum(S) == IF S = {} THEN 0
              ELSE LET i == CHOOSE x \in S : TRUE
                   IN CrossValues(CPU_TEMP)[i] + TempSum(S \ {i})

CriticalCount(insights) ==
    Cardinality({i \in DOMAIN insights : insights[i].level = CRITICAL})

\* C30: the recent-insights endpoint shows at most 10 insights with the
\* Critical ones first, so that no Critical insight is cut off while an insight
\* of another level is shown; total_insights counts the insights before the
\* cut and showing those after it.
C30_CriticalFirst ==
    ret.op = "get_recent_insights" =>
        LET shown == ret.response.insights
        IN /\ Len(shown) <= 10
           /\ \A i, j \in DOMAIN shown :
                  (i < j /\ shown[j].level = CRITICAL) => shown[i].level = CRITICAL
           /\ CriticalCount(shown) < CriticalCount(ret.analysed) =>
                  \A i \in DOMAIN shown : shown[i].level = CRITICAL
           /\ ret.response.total_insights = Len(ret.analysed)
           /\ ret.response.showing = Len(shown)

(***************************************************************************)
(* Properties of concurrent calls.                                         *)
(***************************************************************************)
\* what the call returns when it runs alone
Alone(r) ==
    CASE r.op = "get_available_dates" ->
             [op |-> r.op, dates |-> get_available_dates(files)]
      [] r.op = "get_system_info" -> [op |-> r.op, info |-> get_system_info(files)]
      [] r.op = "get_metrics_for_period" ->
             [op |-> r.op,
              series |-> get_metrics_for_period(files, r.start_date, r.end_date,
                                                r.metric_types)]
      [] r.op = "get_statistics" ->
             [op |-> r.op,
              stats |-> get_statistics(files, r.start_date, r.end_date, r.metric_type)]
      [] r.op = "analyze_period" ->
             [op |-> r.op, insights |-> analyze_period(files, r.start_date, r.end_date)]
      [] OTHER ->
             [op |-> r.op,
              summary |-> get_health_summary(files, r.start_date, r.end_date)]

\* C22: no call changes the state the engine holds (thresholds, anomaly_config,
\* the cache and the data_directory of its DataProcessor), and in every
\* interleaving of two calls on unchanged files each call returns what it
\* returns when it runs alone.
C22_CallsDoNotInterfere ==
    /\ engine = NewEngine
    /\ \A c \in DOMAIN calls :
           calls[c].pc = "done" => ret[c] = Alone(request[c])

\* the first call has returned the series of the per-core column while the
\* second one, over a frame without that column, has built its dict and not
\* yet used it
C22_Witness ==
    /\ DOMAIN calls = {1, 2}
    /\ calls[1].pc = "done" /\ calls[2].pc \in {"mapping", "mapped"}
    /\ ret[1].op = "get_metrics_for_period"
    /\ \E i \in DOMAIN ret[1].series : ret[1].series[i].component \in CoreLabels
    /\ cpu_core_columns(calls[2].df) = <<>>

====
